---- MODULE Spec2Model ----
(***************************************************************************)
(* Veilfire Chat: the chat route's bounded tool-calling loop and the       *)
(* http_request tool's policy gate (src/unnamed/part_002, the chat route). *)
(*                                                                         *)
(* Strings the code inspects character by character (hostnames) are        *)
(* sequences of one-character strings; strings the code only copies or     *)
(* compares whole (secrets, header values, error texts) are TLA+ strings   *)
(* or short sequences of such tokens.                                      *)
(***************************************************************************)
EXTENDS Integers, Sequences, FiniteSets, Bags, TLC

VARIABLES
    \* ---- http_request tool (runScratchpadFunction case "http_request")
    settingsDoc,      \* the user_settings document read at the start of POST
    httpArgs,         \* the parsed arguments of the http_request call
    httpPc,           \* "idle" | "fetching" | "returned"
    effective,        \* the handler's local effectiveDomain (NoRule when null)
    outbound,         \* the request handed to fetch (NoRequest when none)
    httpResult,       \* the value the handler returned (NoResult before)
    \* ---- chat request (POST, the tool-calling loop)
    pc,               \* position of the request handler
    step,             \* the loop variable of `for (let step = 0; step < 6; step++)`
    modelCalls,       \* number of openai.chat.completions.create calls issued
    conversationId,   \* the request's conversationId ("" for null)
    scratchpadContent,\* the handler's local scratchpadContent (NullText for null)
    pending,          \* tool calls of the current round not yet dispatched
    toolResults,      \* results of the current round, in dispatch order
    currentMessages,  \* messages pushed after the prompt: their number, the latest push
    finalContent,     \* the text streamed back to the client
    toolsUsedForThisRun,
    scratchpadStore,  \* the persisted scratchpad content of the conversation
    status,           \* HTTP outcome of the request: 0 while running, 200, 500
    toolsHeader,      \* the names in the response's X-Tools-Used header, with their counts
    \* ---- outside the request handler
    requestAborted,   \* the client aborted its fetch of /api/chat
    scratchpads,      \* the scratchpads collection: content per (userId, conversationId)
    updates,          \* updateOne operations sent to the store and not yet settled
    issued,           \* number of updateOne operations sent so far
    \* ---- /api/user-settings (GET, PUT)
    userSettings,     \* the user's user_settings document (NoDoc when none)
    settingsResponse, \* the latest response of the settings API (NoResponse before)
    \* ---- McpClientManager (src/lib/mcpClient.ts)
    clients,          \* this.clients: server id -> handle
    handles,          \* every handle created so far: its server id and state
    calls,            \* the async calls of the manager that have not settled
    \* ---- context trimming (applyContextStrategyServer, called at the start of POST)
    messages,         \* the request's messages, each with its token count
    contextConfig,    \* the request's contextConfig
    trimmedMessages   \* the result of the trimmer, once it has run

httpVars == <<settingsDoc, httpArgs, httpPc, effective, outbound, httpResult>>
loopVars == <<pc, step, modelCalls, conversationId, scratchpadContent, pending, toolResults,
              currentMessages, finalContent, toolsUsedForThisRun,
              scratchpadStore, status, toolsHeader>>
apiVars == <<userSettings, settingsResponse>>
mcpVars == <<clients, handles, calls>>
outsideVars == <<requestAborted, scratchpads, updates, issued,
                 userSettings, settingsResponse, clients, handles, calls>>
vars == <<settingsDoc, httpArgs, httpPc, effective, outbound, httpResult,
          pc, step, modelCalls, conversationId, scratchpadContent, pending, toolResults,
          currentMessages, finalContent, toolsUsedForThisRun,
          scratchpadStore, status, toolsHeader,
          requestAborted, scratchpads, updates, issued,
          userSettings, settingsResponse, clients, handles, calls,
          messages, contextConfig, trimmedMessages>>
trimVars == <<messages, contextConfig, trimmedMessages>>

(***************************************************************************)
(* Bounds of the model.                                                    *)
(***************************************************************************)
MaxDomains == 2      \* length of settingsDoc.webClientDomains
MaxBatch == 2        \* tool calls in one completion's tool_calls array

(***************************************************************************)
(* Character-level string helpers.                                         *)
(***************************************************************************)
Digits == <<"0", "1", "2", "3", "4", "5", "6", "7", "8", "9">>

IsDigit(c) == \E i \in 1..10 : Digits[i] = c

DigitValue(c) == (CHOOSE i \in 1..10 : Digits[i] = c) - 1

\* String.prototype.toLowerCase on the letters the model uses in upper case.
LowerChar(c) ==
    CASE c = "A" -> "a"
      [] c = "C" -> "c"
      [] c = "E" -> "e"
      [] c = "L" -> "l"
      [] OTHER -> c

toLowerCase(s) == [i \in 1..Len(s) |-> LowerChar(s[i])]

\* String.prototype.endsWith
endsWith(s, suffix) ==
    /\ Len(suffix) <= Len(s)
    /\ SubSeq(s, Len(s) - Len(suffix) + 1, Len(s)) = suffix

\* Decimal text of a non-negative integer below 1000 (Number -> string).
DecimalText(n) ==
    IF n < 10 THEN <<Digits[n + 1]>>
    ELSE IF n < 100 THEN <<Digits[(n \div 10) + 1], Digits[(n % 10) + 1]>>
    ELSE <<Digits[(n \div 100) + 1], Digits[((n \div 10) % 10) + 1],
           Digits[(n % 10) + 1]>>

\* Number(part) for a string of decimal digits.
RECURSIVE NumberOf(_)
NumberOf(part) ==
    IF Len(part) = 0 THEN 0
    ELSE 10 * NumberOf(SubSeq(part, 1, Len(part) - 1))
         + DigitValue(part[Len(part)])

\* The pieces of s between its "." characters (s.split(".")).
RECURSIVE SplitDots(_)
SplitDots(s) ==
    IF \A i \in 1..Len(s) : s[i] /= "." THEN <<s>>
    ELSE LET k == CHOOSE i \in 1..Len(s) :
                      /\ s[i] = "."
                      /\ \A j \in 1..(i - 1) : s[j] /= "."
         IN <<SubSeq(s, 1, k - 1)>> \o SplitDots(SubSeq(s, k + 1, Len(s)))

(***************************************************************************)
(* URL parsing: new URL(rawUrl) and url.hostname.                          *)
(*                                                                         *)
(* A raw URL is given by the outcome of the URL parser's host parsing:     *)
(* kind "domain" (a DNS name, as written), "ipv4" (four octets, however    *)
(* written), "ipv6" (the address text between the brackets); scheme ""     *)
(* stands for a string the parser rejects, and kind "empty" for a missing  *)
(* or blank url argument.                                                  *)
(***************************************************************************)
Dot == <<".">>

\* url.hostname: domains in lower case, IPv4 as dotted decimal, IPv6 in
\* square brackets.
Hostname(u) ==
    CASE u.kind = "domain" -> toLowerCase(u.name)
      [] u.kind = "ipv4" ->
            DecimalText(u.octets[1]) \o Dot \o DecimalText(u.octets[2]) \o Dot
            \o DecimalText(u.octets[3]) \o Dot \o DecimalText(u.octets[4])
      [] u.kind = "ipv6" -> <<"[">> \o toLowerCase(u.name) \o <<"]">>
      [] OTHER -> <<>>

\* new URL(rawUrl) does not throw
UrlParses(u) == u.kind \in {"domain", "ipv4", "ipv6"} /\ u.scheme /= ""

(***************************************************************************)
(* isPrivateIp, isLocalNetworkHost, findMatchingWebClientDomain            *)
(***************************************************************************)
LOCALHOST == <<"l", "o", "c", "a", "l", "h", "o", "s", "t">>
LOOPBACK4 == <<"1", "2", "7", ".", "0", ".", "0", ".", "1">>
LOOPBACK6 == <<":", ":", "1">>

\* /^(\d{1,3})\.(\d{1,3})\.(\d{1,3})\.(\d{1,3})$/
Ipv4Match(hostname) ==
    LET parts == SplitDots(hostname)
    IN /\ Len(parts) = 4
       /\ \A i \in 1..4 :
            /\ Len(parts[i]) \in 1..3
            /\ \A j \in 1..Len(parts[i]) : IsDigit(parts[i][j])

isPrivateIp(hostname) ==
    IF ~Ipv4Match(hostname) THEN FALSE
    ELSE LET parts == SplitDots(hostname)
             octets == [i \in 1..4 |-> NumberOf(parts[i])]
             a == octets[1]
             b == octets[2]
         IN IF \E i \in 1..4 : octets[i] < 0 \/ octets[i] > 255 THEN FALSE
            ELSE \/ a = 10
                 \/ (a = 172 /\ b >= 16 /\ b <= 31)
                 \/ (a = 192 /\ b = 168)
                 \/ a = 127
                 \/ (a = 169 /\ b = 254)

isLocalNetworkHost(hostname) ==
    LET lower == toLowerCase(hostname)
    IN IF \/ lower = LOCALHOST
          \/ lower = LOOPBACK4
          \/ lower = LOOPBACK6
          \/ endsWith(lower, Dot \o LOCALHOST)
       THEN TRUE
       ELSE isPrivateIp(lower)

NoRule == [present |-> FALSE]

\* the test of one candidate inside the loop of findMatchingWebClientDomain
DomainMatches(hostname, cand) ==
    hostname = cand \/ endsWith(hostname, Dot \o cand)

\* the loop of findMatchingWebClientDomain over domains[1..n]: the index of
\* `best` after n iterations, 0 for null
RECURSIVE BestIndex(_, _, _)
BestIndex(hostname, domains, n) ==
    IF n = 0 THEN 0
    ELSE LET best == BestIndex(hostname, domains, n - 1)
             d == domains[n]
             cand == toLowerCase(d.domain)
         IN IF Len(d.domain) = 0 THEN best
            ELSE IF DomainMatches(hostname, cand)
                    /\ (best = 0 \/ Len(cand) > Len(domains[best].domain))
                 THEN n
                 ELSE best

findMatchingWebClientDomain(host, domains) ==
    IF Len(domains) = 0 THEN NoRule
    ELSE LET b == BestIndex(toLowerCase(host), domains, Len(domains))
         IN IF b = 0 THEN NoRule ELSE domains[b]

(***************************************************************************)
(* runScratchpadFunction, case "http_request": the policy gate.            *)
(***************************************************************************)
HTTP_METHODS == <<"GET", "HEAD", "OPTIONS", "POST", "PUT", "PATCH", "DELETE">>

isValidHttpMethod(value) == \E i \in 1..Len(HTTP_METHODS) : HTTP_METHODS[i] = value

\* String.prototype.toUpperCase on the method spellings the model uses
toUpperCase(m) ==
    CASE m = "get" -> "GET"
      [] m = "post" -> "POST"
      [] m = "brew" -> "BREW"
      [] OTHER -> m

\* key.toLowerCase() on the header names the model uses
LowerKey(k) ==
    CASE k \in {"Authorization", "AUTHORIZATION", "authorization"} -> "authorization"
      [] k \in {"Host", "host"} -> "host"
      [] k \in {"Content-Length", "content-length"} -> "content-length"
      [] k = "X-Api-Version" -> "x-api-version"
      [] OTHER -> k

ErrDisabled == "Web Client tool is disabled for this user."
ErrMissingUrl == "Missing or empty 'url' parameter."
ErrInvalidUrl == "Invalid URL. Must be a valid http or https URL."
ErrProtocol == "Only http and https URLs are allowed."
ErrInvalidMethod == "Invalid HTTP method. Must be one of GET, HEAD, OPTIONS, POST, PUT, PATCH, DELETE."
ErrLocalNetwork == "Request blocked: local network and loopback targets are disabled for this user."
ErrWhitelist == "Request blocked: target domain is not enabled in the Web Client whitelist for this user."
ErrMethodBlocked == "Request blocked: HTTP method is not allowed for this domain in the Web Client configuration."
ErrTimeout == "Request timed out while calling the target URL."
ErrException == "Exception while calling target URL."

NoRequest == [sent |-> FALSE]
NoResult == [returned |-> FALSE]
NoArgs == [given |-> FALSE]

Failure(e) == [returned |-> TRUE, ok |-> FALSE, error |-> e]

\* rawMethod
RawMethod(args) == IF args.method = "" THEN "GET" ELSE toUpperCase(args.method)

\* enforceWhitelist: the stored flag when it is a boolean, else true
\* variant: enforcement that has to be switched on
EnforceWhitelist_OffUnlessSet(doc) ==
    doc.webClientEnforceWhitelist = "true"

EnforceWhitelist(doc) ==
    IF doc.webClientEnforceWhitelist \in {"true", "false"}
    THEN doc.webClientEnforceWhitelist = "true"
    ELSE TRUE

\* variant: the matched rule used whether enabled or not
EffectiveDomain_IgnoresEnabled(hostname, allDomains) ==
    findMatchingWebClientDomain(hostname, allDomains)

\* effectiveDomain = matched && matched.enabled !== false ? matched : null
EffectiveDomain(hostname, allDomains) ==
    LET matched == findMatchingWebClientDomain(hostname, allDomains)
    IN IF matched.present /\ matched.enabled /= FALSE THEN matched ELSE NoRule

\* variant: an empty method list allowing every method
MethodsForDomain_EmptyMeansAny(rule) ==
    IF Len(rule.methods) > 0 THEN rule.methods ELSE HTTP_METHODS

\* methodsForDomain
MethodsForDomain(rule) ==
    IF Len(rule.methods) > 0 THEN rule.methods ELSE <<"GET">>

Includes(list, x) == \E i \in 1..Len(list) : list[i] = x

\* variant: the restricted names compared without lower-casing the key
RECURSIVE SanitizedHeaders_CaseSensitive(_)
SanitizedHeaders_CaseSensitive(headersArg) ==
    IF Len(headersArg) = 0 THEN <<>>
    ELSE LET h == Head(headersArg)
             rest == SanitizedHeaders_CaseSensitive(Tail(headersArg))
         IN IF ~h.isString THEN rest
            ELSE IF h.key \in {"host", "content-length", "authorization"} THEN rest
            ELSE <<[key |-> h.key, value |-> h.value]>> \o rest

\* the caller's headers that survive the loop over Object.entries(headersArg)
RECURSIVE SanitizedHeaders(_)
SanitizedHeaders(headersArg) ==
    IF Len(headersArg) = 0 THEN <<>>
    ELSE LET h == Head(headersArg)
             rest == SanitizedHeaders(Tail(headersArg))
             lower == LowerKey(h.key)
         IN IF ~h.isString THEN rest
            ELSE IF lower = "host" \/ lower = "content-length" THEN rest
            ELSE IF lower = "authorization" THEN rest
            ELSE <<[key |-> h.key, value |-> h.value]>> \o rest

\* secretValue: "" stands for null
SecretValue(rule) ==
    IF /\ rule.present
       /\ rule.secret.present
       /\ rule.secret.allowModelAccess = TRUE
       /\ rule.secret.value /= ""
    THEN rule.secret.value
    ELSE ""

\* headers.Authorization = `Bearer ${secretValue}`
OutboundHeaders(args, rule) ==
    LET headers == SanitizedHeaders(args.headers)
        secretValue == SecretValue(rule)
    IN IF secretValue /= ""
       THEN headers \o <<[key |-> "Authorization",
                          value |-> <<"Bearer", secretValue>>]>>
       ELSE headers

\* body: a string as it is, an object as its JSON text, anything else undefined
BodyOf(args) ==
    CASE args.body.kind = "string" -> <<args.body.text>>
      [] args.body.kind = "object" -> <<"JSON", args.body.text>>
      [] OTHER -> <<>>

\* The handler up to the call of fetch: the error it returns, or "" together
\* with the request it hands to fetch.
HttpGate(doc, args) ==
    LET url == args.url
        hostname == toLowerCase(Hostname(url))
        method == RawMethod(args)
        eff == EffectiveDomain(hostname, doc.webClientDomains)
        reject(e) == [error |-> e, effective |-> NoRule, request |-> NoRequest]
    IN IF ~doc.webClientEnabled THEN reject(ErrDisabled)
       ELSE IF url.kind = "empty" THEN reject(ErrMissingUrl)
       ELSE IF ~UrlParses(url) THEN reject(ErrInvalidUrl)
       ELSE IF url.scheme /= "http" /\ url.scheme /= "https" THEN reject(ErrProtocol)
       ELSE IF ~isValidHttpMethod(method) THEN reject(ErrInvalidMethod)
       ELSE IF ~doc.webClientAllowLocalNetwork /\ isLocalNetworkHost(hostname)
            THEN reject(ErrLocalNetwork)
       ELSE IF EnforceWhitelist(doc) /\ ~eff.present
            THEN reject(ErrWhitelist)
       ELSE IF eff.present /\ ~Includes(MethodsForDomain(eff), method)
            THEN [error |-> ErrMethodBlocked, effective |-> eff,
                  request |-> NoRequest]
       ELSE [error |-> "",
             effective |-> eff,
             request |-> [sent |-> TRUE,
                          scheme |-> url.scheme,
                          hostname |-> Hostname(url),
                          method |-> method,
                          headers |-> OutboundHeaders(args, eff),
                          body |-> BodyOf(args)]]

maxChars == 32768

Min(a, b) == IF a < b THEN a ELSE b

\* the normalized response: res.url, status, headers, body cut at maxChars
Normalized(res) ==
    LET truncated == res.body.length > maxChars
    IN [returned |-> TRUE,
        ok |-> TRUE,
        url |-> res.url,
        status |-> res.status,
        statusText |-> res.statusText,
        headers |-> res.headers,
        body |-> [text |-> res.body.text,
                  length |-> Min(res.body.length, maxChars)],
        truncated |-> truncated]

(***************************************************************************)
(* Inputs of the http_request model: stored settings, tool arguments, and  *)
(* what the remote server may answer.                                      *)
(***************************************************************************)
EC == <<"e", ".", "c">>                     \* stands for example.com
AEC == <<"a", ".", "e", ".", "c">>          \* api.example.com
AEC_UPPER == <<"A", ".", "E", ".", "C">>    \* API.EXAMPLE.COM
NEC == <<"n", "e", ".", "c">>               \* notexample.com

NoSecret == [present |-> FALSE, allowModelAccess |-> FALSE, value |-> ""]

\* what PUT /api/user-settings stores for one domain entry: the hostname in
\* lower case, enabled a boolean, methods a list of valid verbs, the secret
\* absent or {allowModelAccess, value} with a trimmed value or null ("")
SecretOf(domain) == IF domain = EC THEN "k-ec" ELSE "k-aec"

Rule(d, e, methods, kind) ==
    [present |-> TRUE, domain |-> d, enabled |-> e, methods |-> methods,
     secret |-> IF kind = "none" THEN NoSecret
                ELSE [present |-> TRUE,
                      allowModelAccess |-> (kind \in {"send", "send-null"}),
                      value |-> IF kind = "send-null" THEN "" ELSE SecretOf(d)]]

StoredRules ==
    {Rule(EC, TRUE, <<>>, "send"),
     Rule(EC, TRUE, <<"GET">>, "keep"),
     Rule(EC, TRUE, <<"POST", "DELETE">>, "none"),
     Rule(AEC, TRUE, <<"POST", "DELETE">>, "send"),
     Rule(AEC, TRUE, <<"GET", "POST">>, "send-null"),
     Rule(AEC, TRUE, <<>>, "none"),
     Rule(EC, FALSE, <<"GET">>, "send"),
     Rule(AEC, FALSE, <<"GET">>, "send")}

RECURSIVE SeqsUpTo(_, _)
SeqsUpTo(S, n) ==
    IF n = 0 THEN {<<>>}
    ELSE LET shorter == SeqsUpTo(S, n - 1)
         IN shorter \cup {Append(q, x) : q \in shorter, x \in S}

SettingsDocs ==
    [webClientEnabled : BOOLEAN,
     webClientEnforceWhitelist : {"true", "false", "unset"},
     webClientAllowLocalNetwork : BOOLEAN,
     webClientDomains : SeqsUpTo(StoredRules, MaxDomains)]

Domain(name) == [kind |-> "domain", scheme |-> "https", name |-> name]
Ipv4(a, b, c, d) == [kind |-> "ipv4", scheme |-> "http", octets |-> <<a, b, c, d>>]

PublicUrls == {Domain(EC), Domain(AEC), Domain(AEC_UPPER), Domain(NEC), Ipv4(8, 8, 8, 8),
               Ipv4(172, 32, 0, 1)}
LocalUrls ==
    {Domain(LOCALHOST), Domain(<<"a", ".">> \o LOCALHOST),
     [kind |-> "ipv6", scheme |-> "http", name |-> LOOPBACK6],
     Ipv4(127, 0, 0, 1), Ipv4(127, 8, 9, 1), Ipv4(10, 1, 2, 3), Ipv4(172, 16, 0, 1),
     Ipv4(172, 31, 255, 1), Ipv4(192, 168, 1, 1), Ipv4(169, 254, 1, 1)}
BadUrls ==
    {[kind |-> "empty", scheme |-> ""],
     [kind |-> "domain", scheme |-> "", name |-> EC],       \* "e.c/path": not absolute
     [kind |-> "domain", scheme |-> "ftp", name |-> EC]}

NoBody == [kind |-> "none", text |-> ""]

Header(k, v) == [key |-> k, value |-> <<v>>, isString |-> TRUE]

HeaderArgs ==
    {<<Header("Authorization", "forged"), Header("X-Api-Version", "2")>>,
     <<Header("AUTHORIZATION", "forged"), Header("host", "evil"),
       Header("Content-Length", "0")>>,
     <<Header("authorization", "forged"),
       [key |-> "X-Api-Version", value |-> <<"2">>, isString |-> FALSE]>>}

Call(u, m, h, b) == [given |-> TRUE, url |-> u, method |-> m, headers |-> h, body |-> b]

HttpArgs ==
    {Call(u, m, <<>>, NoBody) : u \in PublicUrls, m \in {"", "get", "POST", "brew"}}
    \cup {Call(u, m, <<>>, NoBody) : u \in LocalUrls \cup BadUrls, m \in {"", "brew"}}
    \cup {Call(u, m, h, [kind |-> "string", text |-> "payload"]) :
            u \in {Domain(EC), Domain(AEC)}, m \in {"GET", "DELETE"}, h \in HeaderArgs}
    \cup {Call(Domain(AEC), "POST", <<>>, [kind |-> "object", text |-> "payload"])}

\* every token of the request's header values: what the server can copy
RECURSIVE HeaderTokens(_)
HeaderTokens(headers) ==
    IF Len(headers) = 0 THEN <<>>
    ELSE Head(headers).value \o HeaderTokens(Tail(headers))

\* what the remote server may answer to a request it received
Responses(req) ==
    LET self == [scheme |-> req.scheme, hostname |-> req.hostname, query |-> <<>>]
        plain == [url |-> self, status |-> 200, statusText |-> "OK",
                  headers |-> <<>>, body |-> [text |-> <<"hello">>, length |-> 5]]
        echo == HeaderTokens(req.headers)
    IN {plain,
        [plain EXCEPT !.status = 404, !.statusText = "Not Found"],
        [plain EXCEPT !.body = [text |-> <<"hello">>, length |-> maxChars]],
        [plain EXCEPT !.body = [text |-> <<"hello">>, length |-> maxChars + 1]],
        [plain EXCEPT !.body = [text |-> echo, length |-> 40]],
        [plain EXCEPT !.headers = <<[key |-> "x-request-auth", value |-> echo]>>],
        [plain EXCEPT !.url = [self EXCEPT !.query = echo]],
        [plain EXCEPT !.url = [self EXCEPT !.hostname = LOCALHOST]],
        [plain EXCEPT !.url = [self EXCEPT !.hostname = NEC]]}

(***************************************************************************)
(* The http_request handler as steps: the gate, then fetch settling.       *)
(***************************************************************************)
HttpIdle ==
    /\ httpArgs = NoArgs
    /\ httpPc = "idle"
    /\ effective = NoRule
    /\ outbound = NoRequest
    /\ httpResult = NoResult

\* runScratchpadFunction("http_request", args) up to `await fetch(...)`
HttpRequest(args) ==
    /\ httpPc = "idle"
    /\ LET g == HttpGate(settingsDoc, args)
       IN /\ httpArgs' = args
          /\ effective' = g.effective
          /\ outbound' = g.request
          /\ IF g.error /= ""
             THEN httpPc' = "returned" /\ httpResult' = Failure(g.error)
             ELSE httpPc' = "fetching" /\ httpResult' = NoResult
    /\ UNCHANGED settingsDoc
    /\ UNCHANGED loopVars
    /\ UNCHANGED outsideVars
    /\ UNCHANGED trimVars

\* fetch resolves and the body is read
FetchResolves ==
    /\ httpPc = "fetching"
    /\ httpPc' = "returned"
    /\ \E res \in Responses(outbound) : httpResult' = Normalized(res)
    /\ UNCHANGED <<settingsDoc, httpArgs, effective, outbound>>
    /\ UNCHANGED loopVars
    /\ UNCHANGED outsideVars
    /\ UNCHANGED trimVars

\* the 15 s timer aborts the request: fetch rejects with an AbortError
FetchTimesOut ==
    /\ httpPc = "fetching"
    /\ httpPc' = "returned"
    /\ httpResult' = Failure(ErrTimeout)
    /\ UNCHANGED <<settingsDoc, httpArgs, effective, outbound>>
    /\ UNCHANGED loopVars
    /\ UNCHANGED outsideVars
    /\ UNCHANGED trimVars

\* fetch rejects with any other error
FetchThrows ==
    /\ httpPc = "fetching"
    /\ httpPc' = "returned"
    /\ httpResult' = Failure(ErrException)
    /\ UNCHANGED <<settingsDoc, httpArgs, effective, outbound>>
    /\ UNCHANGED loopVars
    /\ UNCHANGED outsideVars
    /\ UNCHANGED trimVars

\* the trimmer is not under study: no messages, nothing trimmed
NotTrimmed == [done |-> FALSE, list |-> <<>>]

TrimIdle ==
    /\ messages = <<>>
    /\ contextConfig = [strategy |-> "full"]
    /\ trimmedMessages = NotTrimmed

\* the settings API is not under study: no document, no response
ApiIdle ==
    /\ userSettings = [exists |-> FALSE, webClientDomains |-> <<>>]
    /\ settingsResponse = [sent |-> FALSE]

\* the MCP client manager is not under study: nothing cached, nothing running
McpIdle ==
    /\ clients = <<>>
    /\ handles = <<>>
    /\ calls = <<>>

\* nothing happens outside the handler under study
OutsideIdle ==
    /\ requestAborted = FALSE
    /\ scratchpads = <<>>
    /\ updates = {}
    /\ issued = 0
    /\ ApiIdle
    /\ McpIdle

LoopIdle ==
    /\ pc = "idle"
    /\ step = 0
    /\ modelCalls = 0
    /\ conversationId = ""
    /\ scratchpadContent = [id |-> "null", len |-> 0]
    /\ pending = <<>>
    /\ toolResults = <<>>
    /\ currentMessages = [pushed |-> 0, last |-> <<>>]
    /\ finalContent = <<>>
    /\ toolsUsedForThisRun = {}
    /\ scratchpadStore = [id |-> "", len |-> 0]
    /\ status = 0
    /\ toolsHeader = EmptyBag

HttpInit ==
    /\ settingsDoc \in SettingsDocs
    /\ HttpIdle
    /\ LoopIdle
    /\ OutsideIdle
    /\ TrimIdle

HttpNext ==
    \/ \E args \in HttpArgs : HttpRequest(args)
    \/ FetchResolves
    \/ FetchTimesOut
    \/ FetchThrows

HttpSpec == HttpInit /\ [][HttpNext]_vars

(***************************************************************************)
(* Vocabulary of the http_request claims, stated on the inputs.            *)
(***************************************************************************)
Called == httpPc /= "idle"
Sent == outbound.sent
Returned == httpResult.returned
Rejected(e) == httpResult = Failure(e) /\ ~Sent

\* the URL is absolute and its scheme is http or https
UrlAccepted(u) ==
    u.kind \in {"domain", "ipv4", "ipv6"} /\ u.scheme \in {"http", "https"}

\* the URL targets localhost, a *.localhost name, ::1, or an IPv4 literal in
\* 127/8, 10/8, 172.16/12, 192.168/16 or 169.254/16
TargetsLocal(u) ==
    \/ /\ u.kind = "domain"
       /\ \/ toLowerCase(u.name) = LOCALHOST
          \/ /\ Len(u.name) > Len(LOCALHOST)
             /\ SubSeq(toLowerCase(u.name), Len(u.name) - Len(LOCALHOST), Len(u.name))
                  = Dot \o LOCALHOST
    \/ u.kind = "ipv6" /\ u.name = LOOPBACK6
    \/ /\ u.kind = "ipv4"
       /\ \/ u.octets[1] \in {127, 10}
          \/ u.octets[1] = 172 /\ u.octets[2] \in 16..31
          \/ u.octets[1] = 192 /\ u.octets[2] = 168
          \/ u.octets[1] = 169 /\ u.octets[2] = 254

\* rule hostname r equals host or is a suffix of it on a dot boundary
RuleCovers(r, host) ==
    \/ host = r
    \/ /\ Len(host) > Len(r)
       /\ SubSeq(host, Len(host) - Len(r) + 1, Len(host)) = r
       /\ host[Len(host) - Len(r)] = "."

EnabledCovering(host, domains) ==
    {i \in 1..Len(domains) : domains[i].enabled /\ RuleCovers(domains[i].domain, host)}

\* the rule's allowed methods, an empty list meaning {GET}
AllowedMethods(rule) ==
    IF rule.methods = <<>> THEN {"GET"}
    ELSE {rule.methods[i] : i \in 1..Len(rule.methods)}

\* whitelist enforcement is on: set to true, or never set
EnforcementOn == settingsDoc.webClientEnforceWhitelist /= "false"

ValidMethods == {"GET", "HEAD", "OPTIONS", "POST", "PUT", "PATCH", "DELETE"}

\* the method asked for: upper-cased, GET when absent
AskedMethod == IF httpArgs.method = "" THEN "GET" ELSE toUpperCase(httpArgs.method)

\* the handler got as far as matching the host against the domain rules
ReachedMatching ==
    /\ Called
    /\ settingsDoc.webClientEnabled
    /\ UrlAccepted(httpArgs.url)
    /\ AskedMethod \in ValidMethods
    /\ httpResult /= Failure(ErrLocalNetwork)

\* C3: an http_request sends an outbound request only if every policy check
\* passes (tool enabled, absolute http/https URL, host not local unless local
\* access is allowed, an enabled rule matches unless enforcement is off, the
\* method is allowed by the matched rule); otherwise nothing is sent and the
\* result is {ok:false, error}.
C3_SendsOnlyIfPolicyPasses ==
    Called =>
        LET u == httpArgs.url
            passes ==
                /\ settingsDoc.webClientEnabled
                /\ UrlAccepted(u)
                /\ (~TargetsLocal(u) \/ settingsDoc.webClientAllowLocalNetwork)
                /\ (~EnforcementOn
                    \/ EnabledCovering(Hostname(u), settingsDoc.webClientDomains) /= {})
                /\ (effective.present => AskedMethod \in AllowedMethods(effective))
        IN /\ Sent => passes
           /\ ~passes => (~Sent /\ Returned /\ httpResult.ok = FALSE
                          /\ httpResult.error /= "")

\* the secret strings at stake in the call: the secret of the matched rule
SecretAtStake == IF effective.present THEN effective.secret.value ELSE ""

Tokens(seq) == {seq[i] : i \in 1..Len(seq)}

\* every string token the returned result carries
ResultTokens ==
    IF ~httpResult.ok THEN {httpResult.error}
    ELSE Tokens(httpResult.url.query)
         \cup Tokens(httpResult.body.text)
         \cup UNION {Tokens(httpResult.headers[i].value) :
                        i \in 1..Len(httpResult.headers)}
         \cup {httpResult.headers[i].key : i \in 1..Len(httpResult.headers)}
         \cup {httpResult.statusText}

\* C4: the result returned by http_request never contains the secret of the
\* matched domain rule, on success or failure, whatever the server answers.
C4_ResultNeverContainsSecret ==
    (Returned /\ SecretAtStake /= "") => SecretAtStake \notin ResultTokens

\* C5: the rule used for a request is the enabled rule with the longest
\* hostname among the enabled rules that equal the target hostname or are a
\* suffix of it on a dot boundary, and none exactly when no enabled rule
\* matches; a disabled rule never matches.
C5_LongestEnabledRuleIsUsed ==
    ReachedMatching =>
        LET host == Hostname(httpArgs.url)
            domains == settingsDoc.webClientDomains
            covering == EnabledCovering(host, domains)
        IN /\ effective.present <=> covering /= {}
           /\ effective.present =>
                /\ effective.enabled
                /\ RuleCovers(effective.domain, host)
                /\ \A i \in covering :
                       Len(domains[i].domain) <= Len(effective.domain)

\* C6: with local network access not allowed, every http_request that targets
\* localhost, *.localhost, ::1 or a private/loopback/link-local IPv4 literal is
\* rejected with the local-network error and no request is sent (stated for
\* calls that pass the checks made before: tool enabled, http/https URL,
\* valid method).
C6_LocalTargetsRejected ==
    ( /\ Called
      /\ settingsDoc.webClientEnabled
      /\ UrlAccepted(httpArgs.url)
      /\ AskedMethod \in ValidMethods
      /\ ~settingsDoc.webClientAllowLocalNetwork
      /\ TargetsLocal(httpArgs.url) )
    => Rejected(ErrLocalNetwork)

RestrictedHeader(k) == LowerKey(k) \in {"host", "content-length", "authorization"}

\* the matched enabled rule has a secret the tool may send, with a value
RuleSendsSecret ==
    /\ effective.present
    /\ effective.enabled
    /\ effective.secret.present
    /\ effective.secret.allowModelAccess
    /\ effective.secret.value /= ""

\* C7: the outbound headers never carry a caller-supplied Host, Content-Length
\* or Authorization header in any letter case; an Authorization header is
\* present iff the matched enabled rule has a secret with allowModelAccess and
\* a non-empty value, and its value is then exactly "Bearer <secret>".
C7_OutboundHeadersSanitized ==
    Sent =>
        LET hs == outbound.headers
            restricted == {i \in 1..Len(hs) : RestrictedHeader(hs[i].key)}
        IN /\ \A i \in restricted :
                /\ hs[i].key = "Authorization"
                /\ hs[i].value = <<"Bearer", effective.secret.value>>
           /\ Cardinality(restricted) <= 1
           /\ restricted /= {} <=> RuleSendsSecret

\* C7 witness: a call that supplied its own AUTHORIZATION and host headers went
\* out with the rule's bearer secret instead.
C7_Witness ==
    /\ Sent
    /\ \E i \in 1..Len(httpArgs.headers) : httpArgs.headers[i].key = "AUTHORIZATION"
    /\ \E i \in 1..Len(outbound.headers) :
          outbound.headers[i] = [key |-> "Authorization", value |-> <<"Bearer", "k-aec">>]

\* C8: when a domain rule matched, the request proceeds only if its method is
\* in the rule's allowedMethods (an empty list meaning {GET}); otherwise the
\* method-blocked error is returned.
C8_MethodMustBeAllowed ==
    (ReachedMatching /\ effective.present) =>
        /\ Sent => outbound.method \in AllowedMethods(effective)
        /\ AskedMethod \notin AllowedMethods(effective) => Rejected(ErrMethodBlocked)

\* C8 witness: a POST to a host whose matched rule has an empty method list
\* was answered with the method-blocked error.
C8_Witness ==
    /\ ReachedMatching
    /\ effective.present
    /\ effective.methods = <<>>
    /\ AskedMethod = "POST"
    /\ Rejected(ErrMethodBlocked)

\* C9 as stated: with whitelist enforcement on and zero domain rules, an
\* http_request to any host returns {ok:false} with the whitelist error
\* (stated for calls with the tool enabled, an http/https URL and a valid
\* method).
C9_AnyHostGetsWhitelistError ==
    ( /\ Called
      /\ settingsDoc.webClientEnabled
      /\ UrlAccepted(httpArgs.url)
      /\ AskedMethod \in ValidMethods
      /\ EnforcementOn
      /\ settingsDoc.webClientDomains = <<>> )
    => Rejected(ErrWhitelist)

\* C9 amended: with whitelist enforcement on and zero domain rules, every
\* http_request is rejected and nothing is sent; the error is the whitelist
\* error unless an earlier check rejected the call first (tool disabled, bad
\* URL, invalid method, local target with local access off), and then it is
\* that check's error.
C9_RejectedWhitelistUnlessEarlier ==
    (Called /\ EnforcementOn /\ settingsDoc.webClientDomains = <<>>) =>
        \/ Rejected(ErrWhitelist)
        \/ Rejected(ErrDisabled) /\ ~settingsDoc.webClientEnabled
        \/ /\ \/ Rejected(ErrMissingUrl)
              \/ Rejected(ErrInvalidUrl)
              \/ Rejected(ErrProtocol)
           /\ ~UrlAccepted(httpArgs.url)
        \/ Rejected(ErrInvalidMethod) /\ AskedMethod \notin ValidMethods
        \/ /\ Rejected(ErrLocalNetwork)
           /\ TargetsLocal(httpArgs.url)
           /\ ~settingsDoc.webClientAllowLocalNetwork

\* C9 witness: enforcement on, no rules, a public host: whitelist error.
C9_Witness ==
    /\ Called
    /\ settingsDoc.webClientEnabled
    /\ EnforcementOn
    /\ settingsDoc.webClientDomains = <<>>
    /\ httpArgs.url = Domain(EC)
    /\ Rejected(ErrWhitelist)

\* the first of the five policy checks the call violates, 0 if none
FirstViolated ==
    LET u == httpArgs.url
    IN IF ~settingsDoc.webClientEnabled THEN 1
       ELSE IF ~UrlAccepted(u) THEN 2
       ELSE IF TargetsLocal(u) /\ ~settingsDoc.webClientAllowLocalNetwork THEN 3
       ELSE IF EnforcementOn /\ ~effective.present THEN 4
       ELSE IF effective.present /\ AskedMethod \notin AllowedMethods(effective) THEN 5
       ELSE 0

ErrorsOfCheck(n) ==
    CASE n = 1 -> {ErrDisabled}
      [] n = 2 -> {ErrMissingUrl, ErrInvalidUrl, ErrProtocol}
      [] n = 3 -> {ErrLocalNetwork}
      [] n = 4 -> {ErrWhitelist}
      [] n = 5 -> {ErrMethodBlocked}
      [] OTHER -> {}

\* C10: the checks are fail-fast in the order (1) tool enabled, (2) URL,
\* (3) local-network block, (4) whitelist match, (5) method allowed: a call
\* that violates one or more of them gets the error of the earliest one
\* (stated for calls whose method is one of the seven verbs).
C10_EarliestFailingCheckWins ==
    (Called /\ AskedMethod \in ValidMethods /\ FirstViolated /= 0) =>
        /\ ~Sent
        /\ Returned
        /\ httpResult.ok = FALSE
        /\ httpResult.error \in ErrorsOfCheck(FirstViolated)

(***************************************************************************)
(* POST /api/chat: scratchpad helpers and the tool dispatcher.             *)
(*                                                                         *)
(* A text the code only measures and cuts is [id, len]: the first len      *)
(* characters of the text named id.                                        *)
(***************************************************************************)
Text(id, len) == [id |-> id, len |-> len]
EmptyText == Text("", 0)
NullText == Text("null", 0)           \* scratchpadContent = null
Undefined == Text("undefined", 0)     \* a property the arguments lack
NotAString == Text("number", 0)       \* a content that is no string

IsString(t) == t.id \notin {"null", "undefined", "number"}

SCRATCHPAD_CAP == 8000

\* variant: a write that stores the content whole
Slice_Whole(t, n) == t

\* content.slice(0, n)
Slice(t, n) == IF t.len <= n THEN t ELSE Text(t.id, n)

EmptyHttpArgs == Call([kind |-> "empty", scheme |-> ""], "", <<>>, NoBody)

\* JSON.parse of the raw argument text, {} when blank or malformed
ParsedArgs(call) ==
    IF call.json = "object"
    THEN [content |-> call.content, http |-> call.http]
    ELSE [content |-> Undefined, http |-> EmptyHttpArgs]

Result(tag, text, detail) == [tag |-> tag, text |-> text, detail |-> detail]

Outcome(throws, result, store, content) ==
    [throws |-> throws, result |-> result, store |-> store, content |-> content]

Thrown == Result("thrown", EmptyText, <<>>)

\* getScratchpadForConversation: what it may do from the current state
GetScratchpadOutcomes ==
    IF conversationId = ""
    THEN {Outcome(FALSE, Result("content", EmptyText, <<>>), scratchpadStore, EmptyText)}
    ELSE {Outcome(FALSE, Result("content", scratchpadStore, <<>>),
                  scratchpadStore, scratchpadStore),
          \* findOne rejects: the exception leaves the handler
          Outcome(TRUE, Thrown, scratchpadStore, scratchpadContent)}

\* variant: a write of the empty string leaves the stored content in place
SetScratchpadOutcomes_KeepsOnEmpty(content) ==
    IF conversationId = "" \/ content.len = 0
    THEN {Outcome(FALSE, Result("ok", EmptyText, <<>>), scratchpadStore, content)}
    ELSE LET normalized == Slice(content, SCRATCHPAD_CAP)
         IN {Outcome(FALSE, Result("ok", EmptyText, <<>>), normalized, normalized),
             Outcome(TRUE, Thrown, scratchpadStore, normalized)}

\* setScratchpadForConversation(content)
SetScratchpadOutcomes(content) ==
    IF conversationId = ""
    THEN {Outcome(FALSE, Result("ok", EmptyText, <<>>), scratchpadStore, content)}
    ELSE LET normalized == Slice(content, SCRATCHPAD_CAP)
         IN {Outcome(FALSE, Result("ok", EmptyText, <<>>), normalized, normalized),
             \* updateOne rejects after scratchpadContent was assigned
             Outcome(TRUE, Thrown, scratchpadStore, normalized)}

\* what http_request returns inside the loop, reduced to ok / error text
HttpOutcomes(args) ==
    LET g == HttpGate(settingsDoc, args)
        keep(r) == Outcome(FALSE, r, scratchpadStore, scratchpadContent)
    IN IF g.error /= ""
       THEN {keep(Result("http_error", EmptyText, <<g.error>>))}
       ELSE {keep(Result("http_ok", EmptyText, <<>>)),
             keep(Result("http_error", EmptyText, <<ErrTimeout>>)),
             keep(Result("http_error", EmptyText, <<ErrException>>))}

\* variant: an error that does not name the tool
UnknownTool_Unnamed(name) == Result("error", EmptyText, <<"Unknown tool">>)

\* default: return { error: `Unknown tool: ${name}` }
UnknownTool(name) == Result("error", EmptyText, <<"Unknown tool: ", name>>)

\* runScratchpadFunction(name, args): every way the call can end
ToolOutcomes(name, args) ==
    CASE name = "get_scratchpad" -> GetScratchpadOutcomes
      [] name = "set_scratchpad" ->
            SetScratchpadOutcomes(IF IsString(args.content) /\ args.content.len > 0
                                  THEN args.content ELSE EmptyText)
      [] name = "get_utc_time" ->
            {Outcome(FALSE, r, scratchpadStore, scratchpadContent) :
                r \in {Result("time", EmptyText, <<"timeapi.io">>),
                       Result("error", EmptyText,
                              <<"Failed to fetch time from timeapi.io: ", "503">>),
                       Result("error", EmptyText,
                              <<"Exception while calling timeapi.io">>)}}
      [] name = "http_request" -> HttpOutcomes(args.http)
      [] OTHER ->
            {Outcome(FALSE, UnknownTool(name), scratchpadStore, scratchpadContent)}

\* variant: every tool recorded under its own name
ToolsUsedAfter_ByName(used, name) == used \cup {name}

\* toolsUsedForThisRun after a call of `name`
ToolsUsedAfter(used, name) ==
    IF name = "get_scratchpad" \/ name = "set_scratchpad" THEN used \cup {"scratchpad"}
    ELSE IF name /= "" THEN used \cup {name}
    ELSE used

(***************************************************************************)
(* Inputs of the chat request: what the completion API may answer.         *)
(***************************************************************************)
ToolCall(name, json, content, http) ==
    [name |-> name, json |-> json, content |-> content, http |-> http]

ToolCalls ==
    {ToolCall("get_scratchpad", "blank", Undefined, EmptyHttpArgs),
     ToolCall("set_scratchpad", "object", Text("note", 5), EmptyHttpArgs),
     ToolCall("set_scratchpad", "object", Text("long", 9000), EmptyHttpArgs),
     ToolCall("set_scratchpad", "malformed", Text("note", 5), EmptyHttpArgs),
     ToolCall("set_scratchpad", "object", NotAString, EmptyHttpArgs),
     ToolCall("get_utc_time", "object", Undefined, EmptyHttpArgs),
     ToolCall("http_request", "object", Undefined,
              Call(Domain(EC), "GET", <<>>, NoBody)),
     ToolCall("http_request", "object", Undefined,
              Call(Domain(NEC), "GET", <<>>, NoBody)),
     ToolCall("http_request", "malformed", Undefined,
              Call(Domain(EC), "GET", <<>>, NoBody)),
     ToolCall("frobnicate", "object", Undefined, EmptyHttpArgs)}

Batches == SeqsUpTo(ToolCalls, MaxBatch) \ {<<>>}

\* msg.content: text, blanks and textual set_scratchpad({content: "..."}) calls
Plain(t) == [kind |-> "text", s |-> t, payload |-> EmptyText]
Blank == [kind |-> "space", s |-> " ", payload |-> EmptyText]
Inline(t) == [kind |-> "call", s |-> "set_scratchpad", payload |-> t]

Contents ==
    {<<>>,
     <<Plain("answer")>>,
     <<Plain("answer"), Blank, Inline(Text("plan", 4))>>,
     <<Inline(Text("plan", 4)), Blank, Inline(Text("plan", 4))>>}

\* msg.content of a message that carries tool calls: null, or a text
CallTexts == {<<>>, <<Plain("thinking")>>}

\* the stored settings of the user while the request runs
LoopSettings ==
    [webClientEnabled |-> TRUE,
     webClientEnforceWhitelist |-> "unset",
     webClientAllowLocalNetwork |-> FALSE,
     webClientDomains |-> <<Rule(EC, TRUE, <<>>, "send")>>]

(***************************************************************************)
(* The tool-calling loop of POST.                                          *)
(***************************************************************************)
MaxRounds == 6

\* currentMessages is only appended to and handed to the completion API: the
\* model keeps how many messages the loop has pushed and the latest push
Messages(pushed, last) == [pushed |-> pushed, last |-> last]

push(list, items) == Messages(list.pushed + Len(items), items)

\* variant: a loop test that lets one more round through
AtLoopTest_OneMore(s) == IF s <= MaxRounds THEN "await_model" ELSE "after_loop"

\* variant: a loop that gives up with an error when the rounds run out
AtLoopTest_CapIsError(s) == IF s < MaxRounds THEN "await_model" ELSE "failed"

\* for (let step = 0; step < 6; step++): where control goes at the loop test
AtLoopTest(s) == IF s < MaxRounds THEN "await_model" ELSE "after_loop"

dbVars == <<conversationId, scratchpadStore, scratchpadContent>>

ChatInit ==
    /\ settingsDoc = LoopSettings
    /\ HttpIdle
    /\ OutsideIdle
    /\ TrimIdle
    /\ pc = "loop_test"
    /\ step = 0
    /\ modelCalls = 0
    /\ conversationId \in {"", "c1"}
    /\ scratchpadContent = NullText
    /\ pending = <<>>
    /\ toolResults = <<>>
    /\ currentMessages = Messages(0, <<>>)
    /\ finalContent = <<>>
    /\ toolsUsedForThisRun = {}
    /\ scratchpadStore \in {EmptyText, Text("old", 3)}
    /\ status = 0
    /\ toolsHeader = EmptyBag

\* the loop test: another completion is requested, or the loop ends
LoopTest ==
    /\ pc = "loop_test"
    /\ pc' = AtLoopTest(step)
    /\ modelCalls' = IF pc' = "await_model" THEN modelCalls + 1 ELSE modelCalls
    /\ UNCHANGED <<status, step, pending, toolResults, currentMessages, finalContent,
                   toolsUsedForThisRun>>
    /\ UNCHANGED dbVars
    /\ UNCHANGED httpVars
    /\ UNCHANGED outsideVars
    /\ UNCHANGED trimVars
    /\ UNCHANGED toolsHeader

\* openai.chat.completions.create rejects: the request fails
CompletionFails ==
    /\ pc = "await_model"
    /\ pc' = "failed"
    /\ status' = 500
    /\ UNCHANGED <<step, modelCalls, pending, toolResults, currentMessages,
                   finalContent, toolsUsedForThisRun>>
    /\ UNCHANGED dbVars
    /\ UNCHANGED httpVars
    /\ UNCHANGED outsideVars
    /\ UNCHANGED trimVars
    /\ UNCHANGED toolsHeader

\* if (!msg) break
CompletionWithoutMessage ==
    /\ pc = "await_model"
    /\ pc' = "after_loop"
    /\ UNCHANGED <<step, modelCalls, pending, toolResults, currentMessages,
                   finalContent, toolsUsedForThisRun, status>>
    /\ UNCHANGED dbVars
    /\ UNCHANGED httpVars
    /\ UNCHANGED outsideVars
    /\ UNCHANGED trimVars
    /\ UNCHANGED toolsHeader

\* variant: the text of a tool-calling message added to the final text
FinalContentWithCalls_Appended(final, content) == final \o content

\* finalContent after a message that carries tool calls: the branch never
\* reads msg.content
FinalContentWithCalls(final, content) == final

\* msg.tool_calls is a non-empty array; msg.content is the text beside it
CompletionToolCalls(batch, content) ==
    /\ pc = "await_model"
    /\ pc' = "tool_calls"
    /\ pending' = [i \in 1..Len(batch) |-> [id |-> i, call |-> batch[i]]]
    /\ toolResults' = <<>>
    /\ finalContent' = FinalContentWithCalls(finalContent, content)
    /\ UNCHANGED <<step, modelCalls, currentMessages, toolsUsedForThisRun, status>>
    /\ UNCHANGED dbVars
    /\ UNCHANGED httpVars
    /\ UNCHANGED outsideVars
    /\ UNCHANGED trimVars
    /\ UNCHANGED toolsHeader

\* one iteration of `for (const toolCall of toolCalls)`
DispatchToolCall ==
    /\ pc = "tool_calls"
    /\ pending /= <<>>
    /\ LET toolCall == Head(pending)
           name == toolCall.call.name
       IN \E o \in ToolOutcomes(name, ParsedArgs(toolCall.call)) :
            /\ scratchpadStore' = o.store
            /\ scratchpadContent' = o.content
            /\ IF o.throws
               THEN /\ pc' = "failed"
                    /\ status' = 500
                    /\ UNCHANGED <<pending, toolResults, toolsUsedForThisRun>>
               ELSE /\ pc' = pc
                    /\ status' = status
                    /\ pending' = Tail(pending)
                    /\ toolsUsedForThisRun' = ToolsUsedAfter(toolsUsedForThisRun, name)
                    /\ toolResults' = Append(toolResults,
                                             [role |-> "tool",
                                              tool_call_id |-> toolCall.id,
                                              content |-> o.result])
    /\ UNCHANGED <<step, modelCalls, currentMessages, finalContent, conversationId>>
    /\ UNCHANGED httpVars
    /\ UNCHANGED outsideVars
    /\ UNCHANGED trimVars
    /\ UNCHANGED toolsHeader

MessageOf(m) == [role |-> m.role, id |-> m.tool_call_id]

\* variant: the results appended newest first
RoundMessages_NewestFirst(results) ==
    <<[role |-> "assistant_tool_calls", id |-> Len(results)]>>
    \o [i \in 1..Len(results) |-> MessageOf(results[Len(results) + 1 - i])]

\* [assistantToolCallMessage, ...toolResults]
RoundMessages(results) ==
    <<[role |-> "assistant_tool_calls", id |-> Len(results)]>>
    \o [i \in 1..Len(results) |-> MessageOf(results[i])]

\* the batch is done: the assistant message and the results are appended
FinishToolRound ==
    /\ pc = "tool_calls"
    /\ pending = <<>>
    /\ currentMessages' = push(currentMessages, RoundMessages(toolResults))
    /\ toolResults' = <<>>
    /\ step' = step + 1
    /\ pc' = "loop_test"
    /\ UNCHANGED <<modelCalls, pending, finalContent, toolsUsedForThisRun, status>>
    /\ UNCHANGED dbVars
    /\ UNCHANGED httpVars
    /\ UNCHANGED outsideVars
    /\ UNCHANGED trimVars
    /\ UNCHANGED toolsHeader

\* msg.function_call: the legacy single call
CompletionFunctionCall(call, content) ==
    /\ pc = "await_model"
    /\ pc' = "function_call"
    /\ pending' = <<[id |-> 0, call |-> call]>>
    /\ toolResults' = <<>>
    /\ finalContent' = FinalContentWithCalls(finalContent, content)
    /\ UNCHANGED <<step, modelCalls, currentMessages, toolsUsedForThisRun, status>>
    /\ UNCHANGED dbVars
    /\ UNCHANGED httpVars
    /\ UNCHANGED outsideVars
    /\ UNCHANGED trimVars
    /\ UNCHANGED toolsHeader

\* the legacy call is run and its two messages are appended
DispatchFunctionCall ==
    /\ pc = "function_call"
    /\ LET name == Head(pending).call.name
       IN \E o \in ToolOutcomes(name, ParsedArgs(Head(pending).call)) :
            /\ scratchpadStore' = o.store
            /\ scratchpadContent' = o.content
            /\ IF o.throws
               THEN /\ pc' = "failed"
                    /\ status' = 500
                    /\ UNCHANGED <<pending, step, currentMessages, toolsUsedForThisRun>>
               ELSE /\ pc' = "loop_test"
                    /\ status' = status
                    /\ pending' = <<>>
                    /\ step' = step + 1
                    /\ toolsUsedForThisRun' = ToolsUsedAfter(toolsUsedForThisRun, name)
                    /\ currentMessages' =
                          push(currentMessages,
                               <<[role |-> "assistant_function_call", id |-> 0],
                                 [role |-> "function", id |-> 0]>>)
    /\ UNCHANGED <<modelCalls, toolResults, finalContent, conversationId>>
    /\ UNCHANGED httpVars
    /\ UNCHANGED outsideVars
    /\ UNCHANGED trimVars
    /\ UNCHANGED toolsHeader

\* plain text: finalContent += content; break
CompletionText(content) ==
    /\ pc = "await_model"
    /\ finalContent' = finalContent \o content
    /\ currentMessages' = push(currentMessages, <<[role |-> "assistant", id |-> 0]>>)
    /\ pc' = "after_loop"
    /\ UNCHANGED <<step, modelCalls, pending, toolResults, toolsUsedForThisRun, status>>
    /\ UNCHANGED dbVars
    /\ UNCHANGED httpVars
    /\ UNCHANGED outsideVars
    /\ UNCHANGED trimVars
    /\ UNCHANGED toolsHeader

\* finalContent.match(pattern): the index of the first textual invocation, 0 if none
MatchIndex(content) ==
    IF \E i \in 1..Len(content) : content[i].kind = "call"
    THEN CHOOSE i \in 1..Len(content) :
            /\ content[i].kind = "call"
            /\ \A j \in 1..(i - 1) : content[j].kind /= "call"
    ELSE 0

\* String.prototype.trim
RECURSIVE trim(_)
trim(content) ==
    IF Len(content) = 0 THEN content
    ELSE IF Head(content).kind = "space" THEN trim(Tail(content))
    ELSE IF content[Len(content)].kind = "space"
         THEN trim(SubSeq(content, 1, Len(content) - 1))
    ELSE content

\* variant: the invocation removed, the blanks around it left in place
Stripped_Untrimmed(content, i) ==
    SubSeq(content, 1, i - 1) \o SubSeq(content, i + 1, Len(content))

\* finalContent.replace(match[0], "").trim()
Stripped(content, i) ==
    trim(SubSeq(content, 1, i - 1) \o SubSeq(content, i + 1, Len(content)))

\* the textual scratchpad fallback after the loop
Fallback ==
    /\ pc = "after_loop"
    /\ pc' = "persist"
    /\ LET m == MatchIndex(finalContent)
       IN IF "scratchpad" \notin toolsUsedForThisRun /\ finalContent /= <<>> /\ m /= 0
          THEN \E o \in SetScratchpadOutcomes(finalContent[m].payload) :
                 /\ scratchpadStore' = o.store
                 /\ scratchpadContent' = o.content
                 /\ IF o.throws   \* caught and logged
                    THEN UNCHANGED <<toolsUsedForThisRun, finalContent>>
                    ELSE /\ toolsUsedForThisRun' = toolsUsedForThisRun \cup {"scratchpad"}
                         /\ finalContent' = Stripped(finalContent, m)
          ELSE UNCHANGED <<scratchpadStore, scratchpadContent, toolsUsedForThisRun,
                           finalContent>>
    /\ UNCHANGED <<step, modelCalls, pending, toolResults, currentMessages, status,
                   conversationId>>
    /\ UNCHANGED httpVars
    /\ UNCHANGED outsideVars
    /\ UNCHANGED trimVars
    /\ UNCHANGED toolsHeader

\* Array.from(toolsUsedForThisRun).join(","): every element of the set once
ToolsHeader(used) == SetToBag(used)

\* the log and the conversation are written (failures are caught), then the
\* response is returned with status 200
Respond ==
    /\ pc = "persist"
    /\ pc' = "done"
    /\ status' = 200
    /\ toolsHeader' = ToolsHeader(toolsUsedForThisRun)
    /\ UNCHANGED <<step, modelCalls, pending, toolResults, currentMessages,
                   finalContent, toolsUsedForThisRun>>
    /\ UNCHANGED dbVars
    /\ UNCHANGED httpVars
    /\ UNCHANGED outsideVars
    /\ UNCHANGED trimVars

Next ==
    \/ LoopTest
    \/ CompletionFails
    \/ CompletionWithoutMessage
    \/ \E batch \in Batches, content \in CallTexts : CompletionToolCalls(batch, content)
    \/ DispatchToolCall
    \/ FinishToolRound
    \/ \E call \in ToolCalls, content \in CallTexts : CompletionFunctionCall(call, content)
    \/ DispatchFunctionCall
    \/ \E content \in Contents : CompletionText(content)
    \/ Fallback
    \/ Respond

Spec == ChatInit /\ [][Next]_vars

\* once the loop is left the handler runs on by itself: the loop test, the
\* fallback and the response are taken when they can be
FairSpec == Spec /\ WF_vars(LoopTest) /\ WF_vars(Fallback) /\ WF_vars(Respond)

\* the tool_calls arrays of the requests that run into the round limit: every
\* tool call alone, and the arrays made of a scratchpad write and a call of
\* an unknown tool in any order
CapBatches ==
    {<<call>> : call \in ToolCalls}
        \cup (SeqsUpTo({ToolCall("set_scratchpad", "object", Text("note", 5), EmptyHttpArgs),
                        ToolCall("frobnicate", "object", Undefined, EmptyHttpArgs)},
                       MaxBatch) \ {<<>>})

\* the chat request with the completions drawn from CapBatches
CapNext ==
    \/ LoopTest
    \/ CompletionFails
    \/ CompletionWithoutMessage
    \/ \E batch \in CapBatches, content \in CallTexts : CompletionToolCalls(batch, content)
    \/ DispatchToolCall
    \/ FinishToolRound
    \/ \E call \in ToolCalls, content \in CallTexts : CompletionFunctionCall(call, content)
    \/ DispatchFunctionCall
    \/ \E content \in Contents : CompletionText(content)
    \/ Fallback
    \/ Respond

CapSpec ==
    /\ ChatInit
    /\ [][CapNext]_vars
    /\ WF_vars(LoopTest) /\ WF_vars(Fallback) /\ WF_vars(Respond)

(***************************************************************************)
(* Claims about the tool-calling loop.                                     *)
(***************************************************************************)
\* the rounds so far were all answered with tool calls
OnlyToolRounds == step = modelCalls

\* C1: whatever the completion API answers (tool-call batches, legacy function
\* calls, plain text, in any mix), one chat request issues at most 6 calls to
\* the completion API.
C1_AtMostSixModelCalls == modelCalls <= 6

\* C1 witness: a request that was answered after six completion calls.
C1_Witness ==
    /\ pc = "done"
    /\ modelCalls = 6
    /\ currentMessages.pushed > 6

\* C2: when every completion call is answered with tool calls, the request
\* still terminates: once six rounds are done the loop ends without an error
\* and the request completes normally (status 200) with the final text
\* accumulated so far, which is empty.
C2_CapEndsRequestNormally ==
    (pc = "loop_test" /\ step = 6)
        ~> (pc = "done" /\ status = 200 /\ modelCalls = 6 /\ finalContent = <<>>)

\* C2 witness: six tool-call rounds, no seventh completion call, and the
\* response was returned with status 200 and an empty text.
C2_Witness ==
    /\ pc = "done"
    /\ step = 6
    /\ OnlyToolRounds
    /\ status = 200
    /\ finalContent = <<>>

\* C11: only a failure of the completion API call makes a chat request fail;
\* a failure inside a tool handler (scratchpad store failure included) is
\* returned as a tool result and never fails the request.
C11_OnlyCompletionFailureFails ==
    [][pc' = "failed" => pc \in {"await_model", "failed"}]_vars

\* the calls of the round in the order received: those answered, then those waiting
RoundCallIds ==
    [i \in 1..Len(toolResults) |-> toolResults[i].tool_call_id]
    \o [i \in 1..Len(pending) |-> pending[i].id]

\* C12: within one round the tool calls are dispatched one after another in
\* the order received, and the message list then grows by exactly one
\* assistant message recording the batch followed by one result message per
\* call in the same order (one result message for the legacy single call),
\* before the next model call.
C12_SequentialDispatchThenGrowth ==
    /\ [](pc = "tool_calls" => \A i \in 1..Len(RoundCallIds) : RoundCallIds[i] = i)
    /\ [][(pc = "tool_calls" /\ pending /= <<>> /\ pc' = "tool_calls") =>
            /\ Len(toolResults') = Len(toolResults) + 1
            /\ toolResults'[Len(toolResults')].tool_call_id = Head(pending).id
            /\ pending' = Tail(pending)
            /\ currentMessages' = currentMessages]_vars
    /\ [][(pc = "tool_calls" /\ pc' = "loop_test") =>
            LET n == Len(toolResults)
                grown == currentMessages'.last
            IN /\ pending = <<>>
               /\ currentMessages'.pushed = currentMessages.pushed + 1 + n
               /\ Len(grown) = 1 + n
               /\ grown[1].role = "assistant_tool_calls"
               /\ \A i \in 1..n : grown[1 + i] = [role |-> "tool", id |-> i]]_vars
    /\ [][(pc = "function_call" /\ pc' = "loop_test") =>
            /\ currentMessages'.pushed = currentMessages.pushed + 2
            /\ Len(currentMessages'.last) = 2
            /\ currentMessages'.last[1].role = "assistant_function_call"
            /\ currentMessages'.last[2].role = "function"]_vars
    /\ [][modelCalls' /= modelCalls => pending = <<>> /\ toolResults = <<>>]_vars

\* C12 witness: a batch of two calls was dispatched and the list grew by the
\* assistant message and the two results in order.
C12_Witness ==
    /\ pc = "loop_test"
    /\ Len(currentMessages.last) = 3
    /\ currentMessages.last[2].id = 1
    /\ currentMessages.last[3].id = 2
    /\ currentMessages.pushed > 3

KnownTools == {"get_scratchpad", "set_scratchpad", "get_utc_time", "http_request"}

\* the call about to be dispatched names no known tool
UnknownToolIsNext == pending /= <<>> /\ Head(pending).call.name \notin KnownTools

\* a step that keeps the round going after an unknown tool, with this error text
UnknownToolAnswered(text) ==
    /\ (pc = "tool_calls" /\ UnknownToolIsNext) =>
            /\ pc' = "tool_calls"
            /\ pending' = Tail(pending)
            /\ toolResults' =
                  Append(toolResults,
                         [role |-> "tool",
                          tool_call_id |-> Head(pending).id,
                          content |-> Result("error", EmptyText,
                                             <<text, Head(pending).call.name>>)])
    /\ (pc = "function_call" /\ UnknownToolIsNext) =>
            /\ pc' = "loop_test"
            /\ currentMessages'.last[2].role = "function"
    /\ (pc = "tool_calls" /\ pc' = "loop_test") =>
            \A i \in 1..Len(toolResults) :
                currentMessages'.last[1 + i] = MessageOf(toolResults[i])

\* C13 as stated: dispatching a name that is none of the four tools yields
\* {error: "unknown tool: <name>"} and does not abort the round.
C13_UnknownToolLowerCase == [][UnknownToolAnswered("unknown tool: ")]_vars

\* C13 amended: dispatching a name that is none of the four tools yields
\* {error: "Unknown tool: <name>"} (capital U) and does not abort the round:
\* the result is appended as a tool-result message (a function message in the
\* legacy form) and the loop goes on to the next model call.
C13_UnknownToolAnswered == [][UnknownToolAnswered("Unknown tool: ")]_vars

\* C13 witness: an unknown tool was answered and another completion call
\* followed.
C13_Witness ==
    /\ pc = "await_model"
    /\ modelCalls >= 2
    /\ toolsUsedForThisRun = {"frobnicate"}
    /\ currentMessages.last[Len(currentMessages.last)].role = "tool"

\* the argument object {}
EmptyObject == [content |-> Undefined, http |-> EmptyHttpArgs]

\* the call about to be dispatched carries argument text that does not parse
MalformedIsNext ==
    /\ pc \in {"tool_calls", "function_call"}
    /\ pending /= <<>>
    /\ Head(pending).call.json = "malformed"

\* C14: for every tool call whose argument text is malformed, the handler is
\* invoked with an empty argument object and the round does not fail, in the
\* tool-call form and in the legacy function-call form.
C14_MalformedArgsBecomeEmptyObject ==
    [][MalformedIsNext =>
         /\ pc' /= "failed"
         /\ \E o \in ToolOutcomes(Head(pending).call.name, EmptyObject) :
              /\ scratchpadStore' = o.store
              /\ scratchpadContent' = o.content
              /\ pc = "tool_calls" =>
                    toolResults'[Len(toolResults')].content = o.result]_vars

\* the first n characters of a text
FirstChars(t, n) == [id |-> t.id, len |-> IF t.len < n THEN t.len ELSE n]

\* a set_scratchpad call is about to be dispatched
SetScratchpadIsNext ==
    /\ pc \in {"tool_calls", "function_call"}
    /\ pending /= <<>>
    /\ Head(pending).call.name = "set_scratchpad"

\* the content that call asks to write: its string content, "" without one
RequestedContent ==
    LET call == Head(pending).call
    IN IF call.json = "object" /\ IsString(call.content) THEN call.content
       ELSE EmptyText

\* the textual invocation the fallback would pick up
InlineContents ==
    {finalContent[i].payload : i \in {j \in 1..Len(finalContent) :
                                          finalContent[j].kind = "call"}}

\* C15: after any sequence of scratchpad writes the persisted content of the
\* conversation is at most 8,000 characters long and equals the first 8,000
\* characters of the content of the most recent write.
C15_PersistedScratchpadIsCapped ==
    /\ [](scratchpadStore.len <= 8000)
    /\ [][/\ (SetScratchpadIsNext /\ conversationId /= "" /\ pc' /= "failed") =>
                scratchpadStore' = FirstChars(RequestedContent, 8000)
          /\ scratchpadStore' /= scratchpadStore =>
                \/ /\ SetScratchpadIsNext
                   /\ scratchpadStore' = FirstChars(RequestedContent, 8000)
                \/ /\ pc = "after_loop"
                   /\ \E w \in InlineContents :
                         scratchpadStore' = FirstChars(w, 8000)]_vars

\* C15 witness: a 9,000-character write left exactly its first 8,000
\* characters in the store.
C15_Witness ==
    /\ scratchpadStore = [id |-> "long", len |-> 8000]
    /\ scratchpadContent = scratchpadStore
    /\ pc = "loop_test"

\* the fallback is about to run on a text that holds a textual invocation,
\* and no scratchpad tool was used through a structured call
FallbackApplies ==
    /\ pc = "after_loop"
    /\ "scratchpad" \notin toolsUsedForThisRun
    /\ InlineContents /= {}

\* position of the first textual invocation in the final text
FirstInline ==
    CHOOSE i \in 1..Len(finalContent) :
        /\ finalContent[i].kind = "call"
        /\ \A j \in 1..(i - 1) : finalContent[j].kind /= "call"

\* a text without the blanks at its two ends
WithoutBlankEnds(text) ==
    LET solid == {i \in 1..Len(text) : text[i].kind /= "space"}
    IN IF solid = {} THEN <<>>
       ELSE SubSeq(text,
                   CHOOSE a \in solid : \A b \in solid : a <= b,
                   CHOOSE a \in solid : \A b \in solid : a >= b)

\* a text with its i-th piece taken out
WithoutPiece(text, i) == [k \in 1..(Len(text) - 1) |-> IF k < i THEN text[k] ELSE text[k + 1]]

FallbackLeavesAll ==
    /\ scratchpadStore' = scratchpadStore
    /\ finalContent' = finalContent
    /\ toolsUsedForThisRun' = toolsUsedForThisRun

ClientAborts ==
    /\ ~requestAborted
    /\ \/ pc = "await_model"
       \/ pc \in {"tool_calls", "function_call"} /\ pending /= <<>>
    /\ requestAborted' = TRUE
    /\ UNCHANGED <<scratchpads, updates, issued>>
    /\ UNCHANGED apiVars
    /\ UNCHANGED mcpVars
    /\ UNCHANGED loopVars
    /\ UNCHANGED httpVars
    /\ UNCHANGED trimVars

CancelInit ==
    /\ ChatInit
    /\ conversationId = "c1"
    /\ scratchpadStore = EmptyText

CancelNext == Next \/ ClientAborts

CancelSpec == CancelInit /\ [][CancelNext]_vars

\* C17: once a chat request is cancelled from outside while a model call or a
\* tool call is outstanding, the loop makes no further model or tool calls and
\* produces no final answer, and the scratchpad writes committed before the
\* cancellation remain in effect.
C17_CancellationHaltsLoop ==
    [][requestAborted =>
         /\ modelCalls' = modelCalls
         /\ toolResults' = toolResults
         /\ toolsUsedForThisRun' = toolsUsedForThisRun
         /\ scratchpadStore' = scratchpadStore
         /\ finalContent' = finalContent
         /\ status' /= 200]_vars

(***************************************************************************)
(* The scratchpads collection under concurrent requests: every request of  *)
(* a (user, conversation) writes through setScratchpadForConversation,     *)
(* whose updateOne is settled by the store some time after it was sent.    *)
(***************************************************************************)
MaxWrites == 3       \* updateOne operations sent in one run

Key(userId, convId) == [userId |-> userId, conversationId |-> convId]

Keys == {Key("u1", "c1"), Key("u1", "c2"), Key("u2", "c1")}

WriteContents == {Text("note", 5), Text("plan", 4), Text("long", 9000)}

\* variant: a filter that looks at the user alone
Matches_UserOnly(filter, key) == key.userId = filter.userId

\* the filter { userId, conversationId }
Matches(filter, key) ==
    key.userId = filter.userId /\ key.conversationId = filter.conversationId

\* updateOne(filter, { $set: { userId, conversationId, content } }, { upsert: true }):
\* the collections the store may hold afterwards
UpdateOne(docs, u) ==
    LET filter == Key(u.userId, u.conversationId)
        matched == {k \in DOMAIN docs : Matches(filter, k)}
        set(k) == [j \in (DOMAIN docs \ {k}) \cup {filter} |->
                      IF j = filter THEN u.content ELSE docs[j]]
    IN IF matched = {}
       THEN {[j \in DOMAIN docs \cup {filter} |->
                 IF j = filter THEN u.content ELSE docs[j]]}
       ELSE {set(k) : k \in matched}

StoreInit ==
    /\ settingsDoc = LoopSettings
    /\ HttpIdle
    /\ LoopIdle
    /\ TrimIdle
    /\ requestAborted = FALSE
    /\ scratchpads \in {<<>>, [k \in {Key("u1", "c1")} |-> Text("old", 3)]}
    /\ updates = {}
    /\ issued = 0
    /\ ApiIdle
    /\ McpIdle

\* a request of (userId, convId) runs setScratchpadForConversation(content)
\* up to the await of updateOne
SetScratchpadStarts(userId, convId, content) ==
    /\ issued < MaxWrites
    /\ issued' = issued + 1
    /\ updates' = updates \cup {[n |-> issued + 1,
                                 userId |-> userId,
                                 conversationId |-> convId,
                                 requested |-> content,
                                 content |-> Slice(content, SCRATCHPAD_CAP)]}
    /\ UNCHANGED <<scratchpads, requestAborted>>
    /\ UNCHANGED apiVars
    /\ UNCHANGED mcpVars
    /\ UNCHANGED loopVars
    /\ UNCHANGED httpVars
    /\ UNCHANGED trimVars

\* the store applies one outstanding updateOne, as a whole
UpdateOneApplies ==
    /\ \E u \in updates :
          /\ scratchpads' \in UpdateOne(scratchpads, u)
          /\ updates' = updates \ {u}
    /\ UNCHANGED <<issued, requestAborted>>
    /\ UNCHANGED apiVars
    /\ UNCHANGED mcpVars
    /\ UNCHANGED loopVars
    /\ UNCHANGED httpVars
    /\ UNCHANGED trimVars

\* the store rejects one outstanding updateOne
UpdateOneRejects ==
    /\ \E u \in updates : updates' = updates \ {u}
    /\ UNCHANGED <<scratchpads, issued, requestAborted>>
    /\ UNCHANGED apiVars
    /\ UNCHANGED mcpVars
    /\ UNCHANGED loopVars
    /\ UNCHANGED httpVars
    /\ UNCHANGED trimVars

StoreNext ==
    \/ \E k \in Keys, content \in WriteContents :
          SetScratchpadStarts(k.userId, k.conversationId, content)
    \/ UpdateOneApplies
    \/ UpdateOneRejects

StoreSpec == StoreInit /\ [][StoreNext]_vars

\* the two collections agree on every record but the one of key k
SameElsewhere(k) ==
    \A j \in Keys \ {k} :
        /\ j \in DOMAIN scratchpads' <=> j \in DOMAIN scratchpads
        /\ j \in DOMAIN scratchpads => scratchpads'[j] = scratchpads[j]

MaxMessages == 3     \* length of the request's message list

DefaultLastN == 10
DefaultMaxTokens == 4096

\* Array.prototype.slice(start) with one argument
slice(list, start) ==
    LET len == Len(list)
        from == IF start < 0
                THEN (IF len + start > 0 THEN len + start ELSE 0)
                ELSE (IF start < len THEN start ELSE len)
    IN SubSeq(list, from + 1, len)

\* [...list].reverse()
reverse(list) == [i \in 1..Len(list) |-> list[Len(list) + 1 - i]]

\* variant: the budget tested before the message is added
Exceeds_BeforeAdding(total, tokens, maxTokens) == total > maxTokens

\* if (total + tokens > maxTokens) break
Exceeds(total, tokens, maxTokens) == total + tokens > maxTokens

\* the loop over reversed: push until the first message that would exceed
RECURSIVE TakeWithinBudget(_, _, _)
TakeWithinBudget(reversed, total, maxTokens) ==
    IF Len(reversed) = 0 THEN <<>>
    ELSE LET msg == Head(reversed)
         IN IF Exceeds(total, msg.tokens, maxTokens) THEN <<>>
            ELSE <<msg>> \o TakeWithinBudget(Tail(reversed), total + msg.tokens,
                                             maxTokens)

\* variant: the first n messages instead of the last n
LastMessages_FromFront(list, n) ==
    SubSeq(list, 1, IF n < Len(list) THEN n ELSE Len(list))

\* messages.slice(-n)
LastMessages(list, n) == slice(list, 0 - n)

applyContextStrategyServer(list, config) ==
    IF config.strategy = "full" THEN list
    ELSE IF config.strategy = "lastN"
    THEN LastMessages(list, IF config.given THEN config.value ELSE DefaultLastN)
    ELSE LET maxTokens == IF config.given THEN config.value ELSE DefaultMaxTokens
         IN reverse(TakeWithinBudget(reverse(list), 0, maxTokens))

\* inputs of the trimmer
TokenCounts == {0, 2, 3}

MessageLists ==
    UNION {{[i \in 1..n |-> [id |-> i, tokens |-> f[i]]] : f \in [1..n -> TokenCounts]} :
              n \in 0..MaxMessages}

\* the defaults a new conversation is created with (and the settings panel shows)
DocumentedLastN == 20
DocumentedMaxTokens == 6000

\* lists longer than both lastN defaults, of short and of long messages
LongLists ==
    {[i \in 1..(DocumentedLastN + 1) |-> [id |-> i, tokens |-> t]] : t \in {1, 500}}

ContextConfig(strategy, given, value) ==
    [strategy |-> strategy, given |-> given, value |-> value]

ContextConfigs ==
    {ContextConfig("full", FALSE, 0)}
    \cup {ContextConfig(st, FALSE, 0) : st \in {"lastN", "approxTokens"}}
    \cup {ContextConfig("lastN", TRUE, n) : n \in (0 - 1)..(MaxMessages + 1)}
    \cup {ContextConfig("approxTokens", TRUE, b) : b \in 0..7}

TrimInit ==
    /\ settingsDoc = LoopSettings
    /\ HttpIdle
    /\ LoopIdle
    /\ OutsideIdle
    /\ messages \in MessageLists \cup LongLists
    /\ contextConfig \in ContextConfigs
    /\ trimmedMessages = NotTrimmed

\* const trimmedMessages = applyContextStrategyServer(messages, contextConfig, modelId)
Trim ==
    /\ ~trimmedMessages.done
    /\ trimmedMessages' =
          [done |-> TRUE, list |-> applyContextStrategyServer(messages, contextConfig)]
    /\ UNCHANGED <<messages, contextConfig>>
    /\ UNCHANGED loopVars
    /\ UNCHANGED httpVars
    /\ UNCHANGED outsideVars

TrimNext == Trim

TrimSpec == TrimInit /\ [][TrimNext]_vars

RECURSIVE TotalTokens(_)
TotalTokens(list) ==
    IF Len(list) = 0 THEN 0 ELSE Head(list).tokens + TotalTokens(Tail(list))

\* the trimmer ran with this strategy and an explicit number
TrimmedWith(strategy) ==
    /\ trimmedMessages.done
    /\ contextConfig.strategy = strategy
    /\ contextConfig.given

\* C19: trim(M, approxTokens(budget)) is a sub-list of M in the original order
\* whose total token count is at most the budget; the messages are taken from
\* the most recent backward, a message being included only if adding it keeps
\* the running total within the budget and the taking stops at the first that
\* does not (a most-recent message that alone exceeds the budget is dropped).
C19_ApproxTokensWithinBudget ==
    TrimmedWith("approxTokens") =>
        LET out == trimmedMessages.list
            budget == contextConfig.value
            left == Len(messages) - Len(out)
        IN /\ left >= 0
           /\ out = SubSeq(messages, left + 1, Len(messages))
           /\ TotalTokens(out) <= budget
           /\ left > 0 => TotalTokens(out) + messages[left].tokens > budget

\* C19 witness: the budget cut the list between two messages.
C19_Witness ==
    /\ TrimmedWith("approxTokens")
    /\ Len(messages) = 3
    /\ Len(trimmedMessages.list) = 2
    /\ TotalTokens(trimmedMessages.list) = contextConfig.value

\* the last k elements of a list
Suffix(list, k) == SubSeq(list, Len(list) - k + 1, Len(list))

SmallerOf(a, b) == IF a < b THEN a ELSE b

\* C20 as stated: for every n (0 included), trim(M, lastN(n)) equals the last
\* min(n, |M|) elements of M in their order, and trim(M, full) equals M.
C20_LastNForEveryN ==
    /\ (trimmedMessages.done /\ contextConfig.strategy = "full") =>
            trimmedMessages.list = messages
    /\ (TrimmedWith("lastN") /\ contextConfig.value >= 0) =>
            trimmedMessages.list =
                Suffix(messages, SmallerOf(contextConfig.value, Len(messages)))

\* C20 amended: for every positive n, trim(M, lastN(n)) equals the last
\* min(n, |M|) elements of M in their order (for n = 0 the whole list comes
\* back), and trim(M, full) equals M.
C20_LastNForPositiveN ==
    /\ (trimmedMessages.done /\ contextConfig.strategy = "full") =>
            trimmedMessages.list = messages
    /\ (TrimmedWith("lastN") /\ contextConfig.value >= 1) =>
            trimmedMessages.list =
                Suffix(messages, SmallerOf(contextConfig.value, Len(messages)))
    /\ (TrimmedWith("lastN") /\ contextConfig.value = 0) =>
            trimmedMessages.list = messages

\* C20 witness: lastN(2) on three messages kept the last two.
C20_Witness ==
    /\ TrimmedWith("lastN")
    /\ contextConfig.value = 2
    /\ Len(messages) = 3
    /\ trimmedMessages.list = <<messages[2], messages[3]>>

\* the trimmer ran with this strategy and without its number
TrimmedByDefault(strategy) ==
    /\ trimmedMessages.done
    /\ contextConfig.strategy = strategy
    /\ ~contextConfig.given

\* C21: when the context configuration omits its parameter the trimmer uses
\* the documented defaults: lastN without lastN keeps the last 20 messages,
\* approxTokens without maxApproxTokens uses a budget of 6000 tokens.
C21_DocumentedDefaults ==
    /\ TrimmedByDefault("lastN") =>
            trimmedMessages.list =
                Suffix(messages, SmallerOf(DocumentedLastN, Len(messages)))
    /\ TrimmedByDefault("approxTokens") =>
            LET out == trimmedMessages.list
                left == Len(messages) - Len(out)
            IN /\ left >= 0
               /\ out = SubSeq(messages, left + 1, Len(messages))
               /\ TotalTokens(out) <= DocumentedMaxTokens
               /\ left > 0 =>
                      TotalTokens(out) + messages[left].tokens > DocumentedMaxTokens

(***************************************************************************)
(* The run metadata of the response (X-Tools-Used).                        *)
(***************************************************************************)
\* a tool call of the round is run to its result
Dispatches ==
    /\ pc \in {"tool_calls", "function_call"}
    /\ pending /= <<>>
    /\ pc' /= "failed"

DispatchedName == Head(pending).call.name

\* the textual fallback took an invocation out of the final text
FallbackTook == pc = "after_loop" /\ finalContent' /= finalContent

\* the response's header holds exactly the names of the set, each once
HeaderListsOnce ==
    (pc = "persist" /\ pc' = "done") =>
        /\ BagToSet(toolsHeader') = toolsUsedForThisRun
        /\ \A n \in BagToSet(toolsHeader') : CopiesIn(n, toolsHeader') = 1

NothingUsedAtStart == (pc = "loop_test" /\ modelCalls = 0) => toolsUsedForThisRun = {}

\* C22 as stated: the names in X-Tools-Used are exactly the distinct tool
\* names dispatched during the run, each once: the set starts empty, every
\* dispatched call adds its tool name, nothing else adds to it, and the header
\* lists the set.
C22_HeaderIsDispatchedNames ==
    /\ []NothingUsedAtStart
    /\ [][/\ Dispatches =>
               toolsUsedForThisRun' = toolsUsedForThisRun \cup {DispatchedName}
          /\ ~Dispatches => toolsUsedForThisRun' = toolsUsedForThisRun
          /\ HeaderListsOnce]_vars

\* C22 amended: X-Tools-Used lists, each once, the labels of what the run
\* used: "scratchpad" when get_scratchpad or set_scratchpad was dispatched or
\* the textual fallback took a set_scratchpad invocation from the final text,
\* and the name itself for every other dispatched call with a non-empty name
\* (names of unknown tools included).
C22_HeaderIsUsedLabels ==
    /\ []NothingUsedAtStart
    /\ [][/\ Dispatches =>
               toolsUsedForThisRun' =
                   toolsUsedForThisRun \cup
                       (IF DispatchedName \in {"get_scratchpad", "set_scratchpad"}
                        THEN {"scratchpad"}
                        ELSE IF DispatchedName = "" THEN {} ELSE {DispatchedName})
          /\ FallbackTook =>
               toolsUsedForThisRun' = toolsUsedForThisRun \cup {"scratchpad"}
          /\ (~Dispatches /\ ~FallbackTook) =>
               toolsUsedForThisRun' = toolsUsedForThisRun
          /\ HeaderListsOnce]_vars

\* C22 witness: a response whose header names scratchpad and an unknown tool
\* once each, after a run that called set_scratchpad and frobnicate.
C22_Witness ==
    /\ pc = "done"
    /\ status = 200
    /\ toolsHeader = SetToBag({"scratchpad", "frobnicate"})
    /\ modelCalls >= 3

(***************************************************************************)
(* http_request and redirects: fetch follows them, the result reports the  *)
(* final URL (res.url).                                                    *)
(***************************************************************************)
\* the host of the URL the result reports
ReportedHost == httpResult.url.hostname

\* C25: every host an http_request call contacts satisfies the local-network
\* and whitelist checks of the user's policy, hosts reached by following
\* redirects included: the URL reported in a successful result is never a
\* local target unless local access is allowed, and is covered by an enabled
\* rule unless whitelist enforcement is off.
C25_RedirectTargetsObeyPolicy ==
    (Returned /\ httpResult.ok) =>
        /\ (settingsDoc.webClientAllowLocalNetwork
            \/ ~TargetsLocal([kind |-> "domain", name |-> ReportedHost]))
        /\ (~EnforcementOn
            \/ EnabledCovering(ReportedHost, settingsDoc.webClientDomains) /= {})

(***************************************************************************)
(* Reading the scratchpad back within one run.                             *)
(***************************************************************************)
\* a get_scratchpad is dispatched right after a set_scratchpad of the same
\* round returned {ok: true}, and returns
GetFollowsSet ==
    /\ pc = "tool_calls"
    /\ pending /= <<>>
    /\ Head(pending).call.name = "get_scratchpad"
    /\ toolResults /= <<>>
    /\ toolResults[Len(toolResults)].content.tag = "ok"
    /\ pc' /= "failed"

\* C26: read-after-write within one run: a get_scratchpad that follows
\* set_scratchpad(c) with no other write in between returns the first 8,000
\* characters of c, with a conversation id and without one (scratchpadContent
\* holds what the write assigned: c, or its first 8,000 characters).
C26_ReadAfterWrite ==
    [][GetFollowsSet =>
         toolResults'[Len(toolResults')].content =
             Result("content", FirstChars(scratchpadContent, 8000), <<>>)]_vars

(***************************************************************************)
(* Where the final text comes from.                                        *)
(***************************************************************************)
\* the completion just received carries tool calls
ToolCallsReceived == pc = "await_model" /\ pc' \in {"tool_calls", "function_call"}

\* the completion just received is plain text
PlainTextReceived == pc = "await_model" /\ pc' = "after_loop"

\* the loop has run all its rounds
CapReached == step = MaxRounds

\* C27: the final text is produced only by a plain-text model response: the
\* text beside tool calls is never added to it, so a loop that ends by the
\* 6-round cap leaves the final text empty; the tool calls of the 6th round
\* are all executed, and no model call follows them.
C27_FinalTextOnlyFromPlainText ==
    /\ [](CapReached => (finalContent = <<>> /\ pc /= "await_model"))
    /\ [][/\ ToolCallsReceived => finalContent' = finalContent
          /\ finalContent' /= finalContent => (PlainTextReceived \/ pc = "after_loop")
          /\ (pc = "after_loop" /\ finalContent' /= finalContent) =>
                Len(finalContent') < Len(finalContent)
          /\ CapReached => modelCalls' = modelCalls
          /\ (step = MaxRounds - 1 /\ pc = "tool_calls" /\ pc' = "loop_test") =>
                (pending = <<>> /\ step' = MaxRounds)]_vars

\* C27 witness: six rounds of tool calls, the last one executed, and the
\* response sent with an empty final text.
C27_Witness ==
    /\ pc = "done"
    /\ status = 200
    /\ CapReached
    /\ modelCalls = MaxRounds
    /\ finalContent = <<>>
    /\ currentMessages.last[Len(currentMessages.last)].role = "tool"

(***************************************************************************)
(* set_scratchpad without a string content.                                *)
(***************************************************************************)
\* the set_scratchpad call about to be dispatched carries no string content:
\* its argument text does not parse (the arguments become {}, content
\* missing) or its content is no string
SetWithoutContentIsNext ==
    /\ SetScratchpadIsNext
    /\ \/ Head(pending).call.json /= "object"
       \/ ~IsString(Head(pending).call.content)

\* C28: a set_scratchpad call whose arguments carry no string content
\* replaces the persisted scratchpad of the conversation with the empty
\* string and returns {ok: true}; the previous content does not stay (stated
\* for requests with a conversation id and for calls that return).
C28_SetWithoutContentClears ==
    [][(SetWithoutContentIsNext /\ conversationId /= "" /\ pc' /= "failed") =>
         /\ scratchpadStore' = EmptyText
         /\ scratchpadContent' = EmptyText
         /\ pc = "tool_calls" =>
               toolResults'[Len(toolResults')].content = Result("ok", EmptyText, <<>>)
         /\ pc = "function_call" => pc' = "loop_test"]_vars

\* C28 witness: two set_scratchpad calls of one round returned {ok: true}
\* and the stored scratchpad of the conversation is empty.
C28_Witness ==
    /\ conversationId /= ""
    /\ pc = "tool_calls"
    /\ pending = <<>>
    /\ Len(toolResults) = 2
    /\ \A i \in 1..2 : toolResults[i].content.tag = "ok"
    /\ scratchpadStore = EmptyText
    /\ scratchpadContent = EmptyText

(***************************************************************************)
(* http_request when the longest matching rule is disabled.                *)
(***************************************************************************)
\* the rules that cover the host, enabled or not
Covering(host, domains) ==
    {i \in 1..Len(domains) : RuleCovers(domains[i].domain, host)}

\* the first of the covering rules with the longest hostname
LongestCovering(host, domains) ==
    CHOOSE i \in Covering(host, domains) :
        \A j \in Covering(host, domains) :
            \/ Len(domains[j].domain) < Len(domains[i].domain)
            \/ Len(domains[j].domain) = Len(domains[i].domain) /\ i <= j

\* the handler matched the host and the longest matching rule is disabled
LongestRuleDisabled ==
    /\ ReachedMatching
    /\ LET host == toLowerCase(Hostname(httpArgs.url))
           domains == settingsDoc.webClientDomains
       IN /\ Covering(host, domains) /= {}
          /\ ~domains[LongestCovering(host, domains)].enabled

\* C29: the secret and the method list of a disabled rule are never applied:
\* when the longest rule matching the host is disabled, no rule is in effect
\* and no Authorization header is attached, and with whitelist enforcement
\* off the request is sent with any of the seven valid methods, without a
\* per-domain method check.
C29_DisabledRuleNeverApplied ==
    LongestRuleDisabled =>
        /\ ~effective.present
        /\ Sent => \A i \in 1..Len(outbound.headers) :
                       LowerKey(outbound.headers[i].key) /= "authorization"
        /\ ~EnforcementOn => (Sent /\ outbound.method = AskedMethod)

\* C29 witness: a DELETE went out without Authorization header to a host
\* whose longest rule is disabled, holds a secret and lists other methods.
C29_Witness ==
    /\ LongestRuleDisabled
    /\ ~EnforcementOn
    /\ Sent
    /\ outbound.method = "DELETE"
    /\ outbound.headers = <<>>
    /\ LET domains == settingsDoc.webClientDomains
           rule == domains[LongestCovering(toLowerCase(Hostname(httpArgs.url)), domains)]
       IN /\ rule.secret.present
          /\ rule.secret.allowModelAccess
          /\ rule.methods = <<"GET">>

(***************************************************************************)
(* /api/user-settings: GET and PUT, the webClientDomains part of the       *)
(* document.  Domain names and secret values are strings the handlers      *)
(* trim, lower-case and copy; a secret value of "" stands for null.        *)
(***************************************************************************)
MaxEntries == 2      \* entries in the webClientDomains array of a PUT body

NoDoc == [exists |-> FALSE, webClientDomains |-> <<>>]
NoResponse == [sent |-> FALSE]

WebClientDomainDoc(id, domain, enabled, methods, secret) ==
    [id |-> id, domain |-> domain, enabled |-> enabled, methods |-> methods,
     secret |-> secret]

\* String.prototype.trim on the secret values the model uses
TrimmedValue(v) ==
    CASE v = " s2 " -> "s2"
      [] v = "  " -> ""
      [] OTHER -> v

\* obj.domain.trim().toLowerCase(), then the hostname of it parsed as a URL
NormalizedDomain(raw) ==
    CASE raw = "https://E.C/x" -> "e.c"
      [] raw = " E.C " -> "e.c"
      [] OTHER -> raw

\* methodsSource.filter(isValidHttpMethod), ["GET"] when it is no array
CleanedMethods(methods) ==
    IF ~methods.given THEN <<"GET">> ELSE SelectSeq(methods.list, isValidHttpMethod)

\* variant: the stored secret copied into the response entry
SanitizedDomain_WithSecret(d) ==
    [id |-> d.id,
     domain |-> d.domain,
     enabled |-> d.enabled,
     methods |-> d.methods,
     hasSecret |-> d.secret.present /\ d.secret.value /= "",
     allowModelAccess |-> d.secret.present /\ d.secret.allowModelAccess,
     secret |-> d.secret]

\* sanitize: what one stored domain entry becomes in a response
SanitizedDomain(d) ==
    [id |-> d.id,
     domain |-> d.domain,
     enabled |-> d.enabled,
     methods |-> d.methods,
     hasSecret |-> d.secret.present /\ d.secret.value /= "",
     allowModelAccess |-> d.secret.present /\ d.secret.allowModelAccess]

\* sanitize(doc), entries without id or domain dropped
sanitize(doc) ==
    LET kept == SelectSeq(doc.webClientDomains,
                          LAMBDA d : d.id /= "" /\ d.domain /= "")
    IN [webClientDomains |-> [i \in 1..Len(kept) |-> SanitizedDomain(kept[i])]]

\* existingDomains.find((d) => d.id === id)
Previous(existingDomains, id) ==
    LET same == {i \in 1..Len(existingDomains) : existingDomains[i].id = id}
    IN IF same = {} THEN [found |-> FALSE]
       ELSE [found |-> TRUE,
             secret |-> existingDomains[CHOOSE i \in same : \A j \in same : i <= j].secret]

\* the secret PUT stores for an entry, from the body's secret and the stored one
CleanedSecret(secretSource, previous) ==
    LET had == previous.found /\ previous.secret.present
        allowModelAccess ==
            IF secretSource.allowModelAccess \in {"true", "false"}
            THEN secretSource.allowModelAccess = "true"
            ELSE had /\ previous.secret.allowModelAccess
        value ==
            IF secretSource.value /= "absent" /\ TrimmedValue(secretSource.value) /= ""
            THEN TrimmedValue(secretSource.value)
            ELSE IF had THEN previous.secret.value ELSE ""
    IN IF allowModelAccess \/ value /= ""
       THEN [present |-> TRUE, allowModelAccess |-> allowModelAccess, value |-> value]
       ELSE NoSecret

\* cleanedWebDomains: the entries of the body that PUT stores
RECURSIVE CleanedWebDomains(_, _)
CleanedWebDomains(entries, existingDomains) ==
    IF Len(entries) = 0 THEN <<>>
    ELSE LET obj == Head(entries)
             rest == CleanedWebDomains(Tail(entries), existingDomains)
             rawDomain == NormalizedDomain(obj.domain)
         IN IF obj.id = "" \/ rawDomain = "" THEN rest
            ELSE <<WebClientDomainDoc(obj.id, rawDomain, obj.enabled,
                                      CleanedMethods(obj.methods),
                                      CleanedSecret(obj.secret,
                                                    Previous(existingDomains, obj.id)))>>
                 \o rest

\* inputs: the secret of a body entry (value and allowModelAccess, each absent
\* or given), the entries, the bodies
SecretSource(value, allow) == [value |-> value, allowModelAccess |-> allow]

SecretSources ==
    {SecretSource("absent", "absent"),
     SecretSource("s1", "absent"),
     SecretSource(" s2 ", "true"),
     SecretSource("  ", "absent"),
     SecretSource("absent", "true"),
     SecretSource("absent", "false")}

\* obj.methods: absent, or an array
NoMethods == [given |-> FALSE, list |-> <<>>]
MethodList(list) == [given |-> TRUE, list |-> list]

BodyDomain(id, domain, methods, secret) ==
    [id |-> id, domain |-> domain, enabled |-> TRUE, methods |-> methods,
     secret |-> secret]

BodyDomains ==
    {BodyDomain(id, "https://E.C/x", NoMethods, src) :
        id \in {"d1", "d2"}, src \in SecretSources}
    \cup {BodyDomain("", " E.C ", NoMethods, SecretSource("s1", "true")),
          BodyDomain("d1", "", NoMethods, SecretSource("s1", "true")),
          BodyDomain("d1", " E.C ", MethodList(<<"POST", "BREW">>), SecretSource("s1", "true"))}

\* body.webClientDomains: no array, or an array of entries
PutBodies ==
    {[hasDomains |-> FALSE, webClientDomains |-> <<>>]}
    \cup {[hasDomains |-> TRUE, webClientDomains |-> ds] :
            ds \in SeqsUpTo(BodyDomains, MaxEntries)}

Unauthorized == [sent |-> TRUE, status |-> 401, body |-> "Unauthorized"]

Json(body) == [sent |-> TRUE, status |-> 200, body |-> body]

SettingsInit ==
    /\ settingsDoc = LoopSettings
    /\ HttpIdle
    /\ LoopIdle
    /\ TrimIdle
    /\ requestAborted = FALSE
    /\ scratchpads = <<>>
    /\ updates = {}
    /\ issued = 0
    /\ McpIdle
    /\ userSettings = NoDoc
    /\ settingsResponse = NoResponse

\* GET /api/user-settings
GET(authenticated) ==
    /\ settingsResponse' = IF authenticated THEN Json(sanitize(userSettings))
                           ELSE Unauthorized
    /\ UNCHANGED userSettings
    /\ UNCHANGED <<requestAborted, scratchpads, updates, issued>>
    /\ UNCHANGED mcpVars
    /\ UNCHANGED loopVars
    /\ UNCHANGED httpVars
    /\ UNCHANGED trimVars

\* PUT /api/user-settings: findOne, updateOne with upsert, findOne, sanitize
PUT(authenticated, body) ==
    /\ IF ~authenticated
       THEN /\ settingsResponse' = Unauthorized
            /\ UNCHANGED userSettings
       ELSE LET existingDomains == userSettings.webClientDomains
                saved == [exists |-> TRUE,
                          webClientDomains |->
                              IF body.hasDomains
                              THEN CleanedWebDomains(body.webClientDomains,
                                                     existingDomains)
                              ELSE existingDomains]
            IN /\ userSettings' = saved
               /\ settingsResponse' = Json(sanitize(saved))
    /\ UNCHANGED <<requestAborted, scratchpads, updates, issued>>
    /\ UNCHANGED mcpVars
    /\ UNCHANGED loopVars
    /\ UNCHANGED httpVars
    /\ UNCHANGED trimVars

SettingsNext ==
    \/ \E authenticated \in BOOLEAN : GET(authenticated)
    \/ \E authenticated \in BOOLEAN, body \in PutBodies : PUT(authenticated, body)

SettingsSpec == SettingsInit /\ [][SettingsNext]_vars

\* every secret value a PUT body can carry
SecretStrings == {TrimmedValue(src.value) : src \in SecretSources} \ {"", "absent"}

\* the document with every secret value replaced by one fixed string
Redacted(doc) ==
    [doc EXCEPT !.webClientDomains =
        [i \in 1..Len(doc.webClientDomains) |->
            [doc.webClientDomains[i] EXCEPT !.secret.value =
                IF @ = "" THEN "" ELSE "redacted"]]]

\* every string of a response entry
EntryStrings(e) ==
    {e[f] : f \in {g \in DOMAIN e : g \notin {"enabled", "methods", "hasSecret",
                                             "allowModelAccess", "secret"}}}

\* C23: after any sequence of GET and PUT requests to the user-settings API
\* no response body contains the value of a stored domain secret: a domain
\* entry exposes only hasSecret and allowModelAccess of the secret, and the
\* body is the same whatever the secret values are.
C23_ResponsesNeverCarrySecret ==
    (settingsResponse.sent /\ settingsResponse.status = 200) =>
        LET entries == settingsResponse.body.webClientDomains
        IN /\ \A i \in 1..Len(entries) :
                /\ DOMAIN entries[i] = {"id", "domain", "enabled", "methods",
                                        "hasSecret", "allowModelAccess"}
                /\ EntryStrings(entries[i]) \cap SecretStrings = {}
                /\ entries[i].hasSecret \in BOOLEAN
                /\ entries[i].allowModelAccess \in BOOLEAN
           /\ Len(entries) = Len(userSettings.webClientDomains)
           /\ \A i \in 1..Len(entries) :
                entries[i].hasSecret <=>
                    userSettings.webClientDomains[i].secret.value \in SecretStrings
           /\ settingsResponse.body = sanitize(Redacted(userSettings))

\* C23 witness: two entries are stored with different secret values, one of
\* them open to the model, and the response shows both with hasSecret only.
C23_Witness ==
    /\ settingsResponse.sent
    /\ settingsResponse.status = 200
    /\ Len(userSettings.webClientDomains) = 2
    /\ userSettings.webClientDomains[1].secret.value = "s1"
    /\ userSettings.webClientDomains[2].secret.value = "s2"
    /\ userSettings.webClientDomains[2].secret.allowModelAccess
    /\ \A i \in 1..2 : settingsResponse.body.webClientDomains[i].hasSecret

(***************************************************************************)
(* McpClientManager (src/lib/mcpClient.ts).  Every method is an async      *)
(* function: it runs to its first await when called, and each await that   *)
(* settles is one further step.  Calls overlap freely.                     *)
(***************************************************************************)
MaxCalls == 3        \* calls of the manager's methods started in a run

\* the server ids the manager was constructed with, in the order of the Map
Definitions == <<"fs", "git">>

DefinedIds == {Definitions[i] : i \in 1..Len(Definitions)}

\* the ids callers ask for: the defined ones and one that is not defined
ServerIds == DefinedIds \cup {"nope"}

Handle(serverId, state) == [serverId |-> serverId, state |-> state]

\* Map.prototype.set / delete
MapSet(map, key, value) ==
    [k \in DOMAIN map \cup {key} |-> IF k = key THEN value ELSE map[k]]

MapDelete(map, key) == [k \in DOMAIN map \ {key} |-> map[k]]

NoParts == <<>>

McpCall(op, serverId, at, handle, rest, parts) ==
    [op |-> op, serverId |-> serverId, pc |-> at, handle |-> handle,
     rest |-> rest, parts |-> parts]

\* getOrCreateClient(serverId) up to `await client.connect(transport)`, on the
\* handles hs: where the caller stands, its handle, the handles afterwards
getOrCreateClient(serverId, hs) ==
    IF serverId \in DOMAIN clients
    THEN [pc |-> "requesting", handle |-> clients[serverId], handles |-> hs]
    ELSE IF serverId \notin DefinedIds
    THEN [pc |-> "thrown", handle |-> 0, handles |-> hs]
    ELSE [pc |-> "connecting",
          handle |-> Len(hs) + 1,
          handles |-> Append(hs, Handle(serverId, "connecting"))]

McpInit ==
    /\ settingsDoc = LoopSettings
    /\ HttpIdle
    /\ LoopIdle
    /\ TrimIdle
    /\ requestAborted = FALSE
    /\ scratchpads = <<>>
    /\ updates = {}
    /\ issued = 0
    /\ ApiIdle
    /\ clients = <<>>
    /\ handles = <<>>
    /\ calls = <<>>

McpOthersUnchanged ==
    /\ UNCHANGED <<requestAborted, scratchpads, updates, issued>>
    /\ UNCHANGED apiVars
    /\ UNCHANGED loopVars
    /\ UNCHANGED httpVars
    /\ UNCHANGED trimVars

\* a call of op on serverId begins: getOrCreateClient runs to its first await
Begin(op, serverId, rest) ==
    LET g == getOrCreateClient(serverId, handles)
    IN /\ Len(calls) < MaxCalls
       /\ handles' = g.handles
       /\ calls' = Append(calls, McpCall(op, serverId, g.pc, g.handle, rest, NoParts))
       /\ UNCHANGED clients
       /\ McpOthersUnchanged

listTools(serverId) == Begin("listTools", serverId, <<>>)

callTool(serverId) == Begin("callTool", serverId, <<>>)

\* listAllTools: listTools for each defined id in turn, failures ignored
listAllTools ==
    /\ Len(Definitions) > 0
    /\ Begin("listAllTools", Head(Definitions), Tail(Definitions))

\* the call after its listTools / callTool settled with outcome: listAllTools
\* goes on to its next server id, any other call has settled
AfterSettle(call, outcome, hs) ==
    IF call.op = "listAllTools" /\ call.rest /= <<>>
    THEN LET g == getOrCreateClient(Head(call.rest), hs)
         IN [call |-> [call EXCEPT !.serverId = Head(call.rest),
                                   !.rest = Tail(call.rest),
                                   !.pc = g.pc,
                                   !.handle = g.handle],
             handles |-> g.handles]
    ELSE [call |-> [call EXCEPT !.pc = IF call.op = "listAllTools" THEN "returned"
                                       ELSE outcome],
          handles |-> hs]

\* client.connect resolves: the handle is cached under the server id
ConnectResolves(c) ==
    /\ calls[c].pc = "connecting"
    /\ handles' = [handles EXCEPT ![calls[c].handle].state = "connected"]
    /\ clients' = MapSet(clients, calls[c].serverId, calls[c].handle)
    /\ calls' = [calls EXCEPT ![c].pc = "requesting"]
    /\ McpOthersUnchanged

\* client.connect rejects: getOrCreateClient throws
ConnectRejects(c) ==
    /\ calls[c].pc = "connecting"
    /\ LET next == AfterSettle(calls[c], "thrown",
                               [handles EXCEPT ![calls[c].handle].state = "failed"])
       IN /\ handles' = next.handles
          /\ calls' = [calls EXCEPT ![c] = next.call]
    /\ UNCHANGED clients
    /\ McpOthersUnchanged

\* client.request resolves
RequestResolves(c) ==
    /\ calls[c].pc = "requesting"
    /\ handles[calls[c].handle].state = "connected"
    /\ LET next == AfterSettle(calls[c], "returned", handles)
       IN /\ handles' = next.handles
          /\ calls' = [calls EXCEPT ![c] = next.call]
    /\ UNCHANGED clients
    /\ McpOthersUnchanged

\* client.request rejects (the server failed, or the client is closed)
RequestRejects(c) ==
    /\ calls[c].pc = "requesting"
    /\ LET next == AfterSettle(calls[c], "thrown", handles)
       IN /\ handles' = next.handles
          /\ calls' = [calls EXCEPT ![c] = next.call]
    /\ UNCHANGED clients
    /\ McpOthersUnchanged

\* close(serverId), "" for no argument: one closure per id, each running to
\* `await handle.client.close()` unless no handle is cached for its id
close(serverId) ==
    LET ids == IF serverId /= "" THEN {serverId} ELSE DOMAIN clients
        cached == ids \cap DOMAIN clients
        parts == [id \in cached |->
                    [pc |-> "closing_client", handle |-> clients[id],
                     clientFailed |-> FALSE]]
    IN /\ Len(calls) < MaxCalls
       /\ calls' = Append(calls,
                          McpCall("close", serverId,
                                  IF cached = {} THEN "returned" ELSE "closing",
                                  0, <<>>, parts))
       /\ UNCHANGED <<clients, handles>>
       /\ McpOthersUnchanged

Closing(c, id, at) ==
    /\ calls[c].op = "close"
    /\ id \in DOMAIN calls[c].parts
    /\ calls[c].parts[id].pc = at

\* handle.client.close() resolves; the finally block calls transport.close()
ClientCloseResolves(c, id) ==
    /\ Closing(c, id, "closing_client")
    /\ handles' = [handles EXCEPT ![calls[c].parts[id].handle].state = "closed"]
    /\ calls' = [calls EXCEPT ![c].parts[id].pc = "closing_transport"]
    /\ UNCHANGED clients
    /\ McpOthersUnchanged

\* handle.client.close() rejects; the finally block calls transport.close()
ClientCloseRejects(c, id) ==
    /\ Closing(c, id, "closing_client")
    /\ calls' = [calls EXCEPT ![c].parts[id].pc = "closing_transport",
                              ![c].parts[id].clientFailed = TRUE]
    /\ UNCHANGED <<clients, handles>>
    /\ McpOthersUnchanged

\* Promise.all over the closures: rejected with the first rejection,
\* fulfilled when every closure is
AllSettled(at, parts) ==
    IF at = "thrown" \/ \E id \in DOMAIN parts : parts[id].pc = "thrown" THEN "thrown"
    ELSE IF \A id \in DOMAIN parts : parts[id].pc = "done" THEN "returned"
    ELSE "closing"

\* transport.close() has settled (its failure is swallowed): a failure of
\* client.close() is thrown again, otherwise this.clients.delete(id)
TransportCloseSettles(c, id, closed) ==
    /\ Closing(c, id, "closing_transport")
    /\ handles' = IF closed
                  THEN [handles EXCEPT ![calls[c].parts[id].handle].state = "closed"]
                  ELSE handles
    /\ LET part == calls[c].parts[id]
           parts == [calls[c].parts EXCEPT
                        ![id].pc = IF part.clientFailed THEN "thrown" ELSE "done"]
       IN /\ calls' = [calls EXCEPT ![c].parts = parts,
                                    ![c].pc = AllSettled(calls[c].pc, parts)]
          /\ clients' = IF part.clientFailed THEN clients ELSE MapDelete(clients, id)
    /\ McpOthersUnchanged

McpNext ==
    \/ \E serverId \in ServerIds : listTools(serverId)
    \/ \E serverId \in ServerIds : callTool(serverId)
    \/ listAllTools
    \/ \E serverId \in ServerIds \cup {""} : close(serverId)
    \/ \E c \in 1..Len(calls) : ConnectResolves(c)
    \/ \E c \in 1..Len(calls) : ConnectRejects(c)
    \/ \E c \in 1..Len(calls) : RequestResolves(c)
    \/ \E c \in 1..Len(calls) : RequestRejects(c)
    \/ \E c \in 1..Len(calls), id \in ServerIds : ClientCloseResolves(c, id)
    \/ \E c \in 1..Len(calls), id \in ServerIds : ClientCloseRejects(c, id)
    \/ \E c \in 1..Len(calls), id \in ServerIds, closed \in BOOLEAN :
          TransportCloseSettles(c, id, closed)

McpSpec == McpInit /\ [][McpNext]_vars

\* the handles of a server id whose process is being started or is running
Live(serverId) ==
    {h \in 1..Len(handles) :
        /\ handles[h].serverId = serverId
        /\ handles[h].state \in {"connecting", "connected"}}

\* C24: connections are reused per server id: for any interleaving of
\* listTools and callTool calls on one id, overlapping calls included, at most
\* one server process/connection exists for the id until it is closed.
C24_OneConnectionPerServer ==
    \A serverId \in ServerIds : Cardinality(Live(serverId)) <= 1

\* close(serverId) finishes in this step, by returning or by throwing
CloseFinishes(c) ==
    /\ calls[c].op = "close"
    /\ calls[c].serverId /= ""
    /\ calls[c].pc = "closing"
    /\ calls'[c].pc \in {"returned", "thrown"}

\* C30: once close(serverId) has finished, whether it returned or threw, no
\* handle for serverId remains cached, so that the next listTools / callTool
\* for the id establishes a fresh connection.
C30_NoHandleCachedAfterClose ==
    [][\A c \in 1..Len(calls) :
          CloseFinishes(c) => calls[c].serverId \notin DOMAIN clients']_vars

====
